---- MODULE Spec2Model ----
(***************************************************************************)
(* ntrpRNG v1.3.0: entropy collection, timer jitter and dual-path seed     *)
(* derivation (ntrpRNG.js), as a state machine of one instance running on  *)
(* a single-threaded host (event loop, timers, Web Crypto).                *)
(***************************************************************************)
EXTENDS Integers, Sequences, FiniteSets, TLC

(* ------------------------------------------------------------------------ *)
(* Program constants                                                        *)
(* ------------------------------------------------------------------------ *)
REQUIRED_MIN_EVENTS == 500
_VERIFY_A == 500
_VERIFY_B == 500
_VERIFY_C == 250 * 2

PoolCap == 5000
PoolKeep == 2500
TimerCap == 1000
TimerKeep == 500
batchSize == 100
RandomBytesLen == 64
TruncateLen == 32

\* the constants as the source defines them
BuiltIn ==
  [REQUIRED_MIN_EVENTS |-> REQUIRED_MIN_EVENTS, _VERIFY_A |-> _VERIFY_A,
   _VERIFY_B |-> _VERIFY_B, _VERIFY_C |-> _VERIFY_C]

\* the test the three integrity checks make on the constants
ConstantsAgree(c) ==
  /\ c.REQUIRED_MIN_EVENTS = c._VERIFY_A
  /\ c.REQUIRED_MIN_EVENTS = c._VERIFY_B
  /\ c.REQUIRED_MIN_EVENTS = c._VERIFY_C

(* ------------------------------------------------------------------------ *)
(* Bounds of the model                                                      *)
(* ------------------------------------------------------------------------ *)
\* events delivered to the handlers after the initial state
MaxEvents == 2
\* firings of the timer triggers after the initial state
MaxTicks == 2
\* touch points carried by one touch event
MaxTouches == 2
\* options.iterations of an instance that hashes one full batch
BatchIterations == 100
\* options.iterations of an instance that hashes less than a batch
FewIterations == 2
\* options.saltSize of the instance
SaltSize == 2

(* ------------------------------------------------------------------------ *)
(* State                                                                    *)
(* ------------------------------------------------------------------------ *)
VARIABLES
  constants,                                    \* the four module-level constants of the build
  iterations, saltSize, autoCollect, minEvents, \* this.* set by the constructor
  entropyPool, timerDeltas, eventCount,         \* pools and weighted counters
  lastTimestamp,                                \* this.lastTimestamp
  isCollecting, timerId1, timerId2, rafId,      \* collection state and handles
  DeviceMotionEvent,                            \* window.DeviceMotionEvent exists
  cryptoSubtle,                                 \* host: crypto.subtle exists
  listeners,                                    \* host: registered event types
  rafPending, intervals, timeouts,              \* host: pending timer triggers
  now,                                          \* host: performance.now()
  calls,                                        \* generateSeed calls in flight
  recordedB, recordedT,                         \* history: values recorded since the last clear
  delivered,                                    \* history: handler invocations since the last clear
  draws,                                        \* history: crypto.getRandomValues calls
  nEvents, nTicks,                              \* history: events / ticks since the initial state
  trims,                                        \* history: the trimming tests of the last handler
  lastCall,                                     \* history: the public call made by the last step
  isGenerating, isStressTestRunning,            \* dashboard: the two flags
  perfData, seedHistory, eventLog,              \* dashboard: the three bounded arrays
  display,                                      \* dashboard: text of #seedHex and #seedBase64
  invocation,                                   \* dashboard: the pending generateSeed()
  loops,                                        \* dashboard: the stressTest() loops
  orphans,                                      \* dashboard: derivations whose invocation timed out
  dashHist                                      \* history: everything the dashboard added to its arrays

cfgVars ==
  <<constants, iterations, saltSize, autoCollect, minEvents, DeviceMotionEvent,
    cryptoSubtle>>
poolVars == <<entropyPool, timerDeltas, eventCount>>
collVars == <<isCollecting, timerId1, timerId2, rafId, listeners, rafPending, intervals, timeouts>>
clockVars == <<now, lastTimestamp>>
histVars == <<recordedB, recordedT, delivered, nEvents, nTicks, trims>>
genVars == <<calls, draws>>
dashVars ==
  <<isGenerating, isStressTestRunning, perfData, seedHistory, eventLog, display,
    invocation, loops, orphans, dashHist>>
vars == <<cfgVars, poolVars, collVars, clockVars, histVars, genVars, lastCall, dashVars>>

(* ------------------------------------------------------------------------ *)
(* Sequences                                                                *)
(* ------------------------------------------------------------------------ *)
\* Array.prototype.slice(-n): the last n elements (all of them when shorter)
SliceLast(s, n) ==
  IF Len(s) <= n THEN s ELSE SubSeq(s, Len(s) - n + 1, Len(s))

\* Array.prototype.slice(0, n)
SliceFirst(s, n) ==
  IF Len(s) <= n THEN s ELSE SubSeq(s, 1, n)

Min(a, b) == IF a <= b THEN a ELSE b

RECURSIVE Pow2(_)
Pow2(n) == IF n = 0 THEN 1 ELSE 2 * Pow2(n - 1)


RECURSIVE Log2(_)
\* floor(log2 n) for n >= 1
Log2(n) == IF n < 2 THEN 0 ELSE 1 + Log2(n \div 2)

(* ------------------------------------------------------------------------ *)
(* Byte values.  A value of the pipeline is either concrete bytes or the    *)
(* result of an operation on such values; SHA-256 and SHA-512 are not       *)
(* computed, a digest is identified by its algorithm and its input.         *)
(* ------------------------------------------------------------------------ *)
Nil == [k |-> "nil"]
Bytes(b) == [k |-> "bytes", b |-> b]

\* crypto.subtle.digest(alg, data): the digest of data under alg
digest(alg, data) == [k |-> "digest", alg |-> alg, in |-> data]

\* byte length of a digest
DigestLen(alg) == IF alg = "SHA-256" THEN 32 ELSE 64

\* new Uint8Array(total) filled by successive set() calls
Concat(parts) == [k |-> "cat", parts |-> parts]

RECURSIVE ByteLen(_)
RECURSIVE SumLen(_)
SumLen(parts) ==
  IF parts = <<>> THEN 0 ELSE ByteLen(Head(parts)) + SumLen(Tail(parts))
\* .length of a byte value
ByteLen(x) ==
  CASE x.k = "bytes" -> Len(x.b)
    [] x.k = "digest" -> DigestLen(x.alg)
    [] x.k = "cat" -> SumLen(x.parts)
    [] x.k = "xor" -> Min(ByteLen(x.a), ByteLen(x.b))
    [] x.k = "slice" -> Min(x.n, ByteLen(x.of))
    [] OTHER -> 0

\* _xorArrays(a, b): bytewise XOR over the shorter length
_xorArrays(a, b) == [k |-> "xor", a |-> a, b |-> b]

\* _truncate512(hash512): slice(0, 32)
_truncate512(hash512) == [k |-> "slice", of |-> hash512, n |-> TruncateLen]

(* ------------------------------------------------------------------------ *)
(* _serializeFloats: DataView.setFloat64(i * 8, v, false), big-endian       *)
(* IEEE-754 binary64, for the non-negative integers the model records.      *)
(* ------------------------------------------------------------------------ *)
\* w bits of the 52-bit fraction of n = 2^e + m, starting p bits from its top
FractionBits(m, e, p, w) ==
  IF p >= e THEN 0
  ELSE IF p + w >= e
       THEN (m % Pow2(e - p)) * Pow2(p + w - e)
       ELSE (m \div Pow2(e - p - w)) % Pow2(w)

Float64BE(n) ==
  IF n = 0 THEN <<0, 0, 0, 0, 0, 0, 0, 0>>
  ELSE LET e == Log2(n)
           m == n - Pow2(e)
           biased == 1023 + e
       IN <<biased \div 16,
            (biased % 16) * 16 + FractionBits(m, e, 0, 4),
            FractionBits(m, e, 4, 8), FractionBits(m, e, 12, 8),
            FractionBits(m, e, 20, 8), FractionBits(m, e, 28, 8),
            FractionBits(m, e, 36, 8), FractionBits(m, e, 44, 8)>>

_serializeFloats_littleEndian(floatArray) ==
  Bytes([j \in 1..(8 * Len(floatArray)) |->
           Float64BE(floatArray[((j - 1) \div 8) + 1])[8 - ((j - 1) % 8)]])

_serializeFloats(floatArray) ==
  Bytes([j \in 1..(8 * Len(floatArray)) |->
           Float64BE(floatArray[((j - 1) \div 8) + 1])[((j - 1) % 8) + 1]])

(* ------------------------------------------------------------------------ *)
(* Host events (one representative payload per event type)                  *)
(* ------------------------------------------------------------------------ *)
MouseMoveEvents ==
  {[clientX |-> 10, clientY |-> 20, movementX |-> 1, movementY |-> 0,
    screenX |-> 110, screenY |-> 120]}
MouseDownEvents == {[clientX |-> 10, clientY |-> 20, button |-> 0, buttons |-> 1]}
KeyEvent == [keyCode |-> 65, which |-> 65, repeat |-> FALSE]
KeyDownEvents == {KeyEvent}
TouchPoint == [clientX |-> 30, clientY |-> 40, force |-> 1, radiusX |-> 2, radiusY |-> 2]
\* e.touches: 0 .. MaxTouches touch points
TouchEvents == {[touches |-> [i \in 1..n |-> TouchPoint]] : n \in 0..MaxTouches}
ScrollStates == {[scrollX |-> 0, scrollY |-> 50, innerWidth |-> 800, innerHeight |-> 600]}
\* e.accelerationIncludingGravity and e.rotationRate may each be null
DeviceMotionEvents ==
  {[hasAcceleration |-> a, x |-> 1, y |-> 2, z |-> 9,
    hasRotation |-> r, alpha |-> 3, beta |-> 4, gamma |-> 5] :
     a \in BOOLEAN, r \in BOOLEAN}

\* Date.now() when performance.now() is t
DateNow(t) == 1700000 + t

EventTypes ==
  {"mousemove", "mousedown", "keydown", "touchstart", "touchmove", "scroll"}

\* the listeners startCollecting registers
Registered(dm) == EventTypes \cup (IF dm THEN {"devicemotion"} ELSE {})

\* the handle a host hands out: the least positive integer not in use
FreshId(used) ==
  CHOOSE i \in 1..(Cardinality(used) + 1) :
    i \notin used /\ \A j \in 1..(i - 1) : j \in used

ZeroCount == [mouse |-> 0, keyboard |-> 0, touch |-> 0, scroll |-> 0, other |-> 0]
ZeroDelivered ==
  [mousemove |-> 0, mousedown |-> 0, keydown |-> 0, touchstart |-> 0,
   touchmove |-> 0, scroll |-> 0, devicemotion |-> 0, motionNull |-> 0]

\* the stressTest() loops the model follows
LoopIds == {1, 2}

\* the page before dashboard.js has run anything
NoDashboard ==
  /\ isGenerating = FALSE
  /\ isStressTestRunning = FALSE
  /\ perfData = <<>>
  /\ seedHistory = <<>>
  /\ eventLog = <<>>
  /\ display = [seedHex |-> <<>>, seedBase64 |-> <<>>]
  /\ invocation = [pc |-> "none"]
  /\ loops = [l \in LoopIds |-> [pc |-> "none", i |-> 0]]
  /\ orphans = <<>>
  /\ dashHist = [logged |-> <<>>, seeds |-> <<>>, perf |-> <<>>,
                 invocations |-> 0, started |-> 0, timeouts |-> 0,
                 clicks |-> 0, clears |-> 0]

\* a host with crypto.subtle, the library used without the dashboard
PageWithoutDashboard == cryptoSubtle = TRUE /\ NoDashboard

NoCall == [op |-> "callback", collecting |-> FALSE]
Called(op) == [op |-> op, collecting |-> isCollecting]

(* ------------------------------------------------------------------------ *)
(* EntropyAccumulator                                                       *)
(* ------------------------------------------------------------------------ *)
\* _addEntropy(values): push every value, then trim to the newest 2500
_addEntropy_keepOldest(pool, values) ==
  LET pushed == pool \o values
  IN IF Len(pushed) > PoolCap THEN SliceFirst(pushed, PoolKeep) ELSE pushed

_addEntropy(pool, values) ==
  LET pushed == pool \o values
  IN IF Len(pushed) > PoolCap THEN SliceLast(pushed, PoolKeep) ELSE pushed

RECURSIVE AddAll(_, _)
\* successive _addEntropy calls of one handler
AddAll(pool, arrays) ==
  IF arrays = <<>> THEN pool
  ELSE AddAll(_addEntropy(pool, Head(arrays)), Tail(arrays))

RECURSIVE AddObserved(_, _, _)
\* what each _addEntropy call of one handler did: whether it trimmed, how many
\* values it left and whether they are the newest ones recorded
AddObserved(pool, recorded, arrays) ==
  IF arrays = <<>> THEN <<>>
  ELSE LET left == _addEntropy(pool, Head(arrays))
           rec == recorded \o Head(arrays)
       IN <<[overflowed |-> Len(pool) + Len(Head(arrays)) > PoolCap,
             left |-> Len(left),
             newest |-> left = SliceLast(rec, Len(left))]>>
          \o AddObserved(left, rec, Tail(arrays))

NoTrims == [pool |-> <<>>, timer |-> <<>>]

RECURSIVE Flatten(_)
Flatten(arrays) ==
  IF arrays = <<>> THEN <<>> ELSE Head(arrays) \o Flatten(Tail(arrays))

\* _getWeightedEventCount()
_getWeightedEventCount(ec) ==
  ec.mouse + ec.keyboard + ec.touch + ec.scroll + ec.other

\* a handler's effect: its _addEntropy calls, then its counter increment
Handle(type, arrays, counter, weight) ==
  /\ type \in listeners
  /\ now' = now + 1
  /\ entropyPool' = AddAll(entropyPool, arrays)
  /\ recordedB' = recordedB \o Flatten(arrays)
  /\ eventCount' = [eventCount EXCEPT ![counter] = @ + weight]
  /\ delivered' = [delivered EXCEPT ![type] = @ + 1]
  /\ nEvents' = nEvents + 1
  /\ trims' = [trims EXCEPT !.pool = AddObserved(entropyPool, recordedB, arrays)]
  /\ lastCall' = NoCall
  /\ UNCHANGED <<dashVars, cfgVars, collVars, genVars, timerDeltas, lastTimestamp,
                 recordedT, nTicks>>

_onMouseMove_uncounted(e) ==
  Handle("mousemove",
         <<(<<now + 1, e.clientX, e.clientY, e.movementX, e.movementY,
              e.screenX, e.screenY>>)>>,
         "mouse", 0)

_onMouseMove(e) ==
  Handle("mousemove",
         <<(<<now + 1, e.clientX, e.clientY, e.movementX, e.movementY,
              e.screenX, e.screenY>>)>>,
         "mouse", 1)

_onMouseDown(e) ==
  Handle("mousedown",
         <<(<<now + 1, e.clientX, e.clientY, e.button, e.buttons>>)>>,
         "mouse", 2)

_onKeyDown_weight1(e) ==
  Handle("keydown",
         <<(<<now + 1, e.keyCode, e.which, IF e.repeat THEN 1 ELSE 0>>)>>,
         "keyboard", 1)

_onKeyDown(e) ==
  Handle("keydown",
         <<(<<now + 1, e.keyCode, e.which, IF e.repeat THEN 1 ELSE 0>>)>>,
         "keyboard", 3)

_onTouchStart(e) ==
  Handle("touchstart",
         [i \in 1..Len(e.touches) |->
            <<now + 1, e.touches[i].clientX, e.touches[i].clientY,
              e.touches[i].force, e.touches[i].radiusX, e.touches[i].radiusY>>],
         "touch", 2)

_onTouchMove(e) ==
  Handle("touchmove",
         [i \in 1..Len(e.touches) |->
            <<now + 1, e.touches[i].clientX, e.touches[i].clientY>>],
         "touch", 1)

_onScroll(w) ==
  Handle("scroll",
         <<(<<now + 1, w.scrollX, w.scrollY, w.innerWidth, w.innerHeight>>)>>,
         "scroll", 1)

_onDeviceMotion(e) ==
  IF e.hasAcceleration
  THEN /\ Handle("devicemotion",
                 <<(<<now + 1, e.x, e.y, e.z,
                      IF e.hasRotation THEN e.alpha ELSE 0,
                      IF e.hasRotation THEN e.beta ELSE 0,
                      IF e.hasRotation THEN e.gamma ELSE 0>>)>>,
                 "other", 2)
  ELSE /\ "devicemotion" \in listeners
       /\ now' = now + 1
       /\ delivered' = [delivered EXCEPT !.devicemotion = @ + 1, !.motionNull = @ + 1]
       /\ nEvents' = nEvents + 1
       /\ lastCall' = NoCall
       /\ UNCHANGED <<dashVars, cfgVars, poolVars, collVars, genVars, lastTimestamp,
                      recordedB, recordedT, nTicks, trims>>

\* clearEntropy()
clearEntropy_keepCounters ==
  /\ entropyPool' = <<>>
  /\ timerDeltas' = <<>>
  /\ recordedB' = <<>>
  /\ recordedT' = <<>>
  /\ trims' = NoTrims
  /\ lastCall' = Called("clearEntropy")
  /\ UNCHANGED <<dashVars, cfgVars, collVars, clockVars, genVars, nEvents, nTicks,
                 eventCount, delivered>>

clearEntropy_keepTimerPool ==
  /\ entropyPool' = <<>>
  /\ eventCount' = ZeroCount
  /\ recordedB' = <<>>
  /\ trims' = NoTrims
  /\ delivered' = ZeroDelivered
  /\ lastCall' = Called("clearEntropy")
  /\ UNCHANGED <<dashVars, cfgVars, collVars, clockVars, genVars, nEvents, nTicks,
                 timerDeltas, recordedT>>

clearEntropy_restoresMinEvents ==
  /\ entropyPool' = <<>>
  /\ timerDeltas' = <<>>
  /\ eventCount' = ZeroCount
  /\ recordedB' = <<>>
  /\ recordedT' = <<>>
  /\ trims' = NoTrims
  /\ delivered' = ZeroDelivered
  /\ lastCall' = Called("clearEntropy")
  /\ minEvents' = 500
  /\ UNCHANGED <<constants, iterations, saltSize, autoCollect, DeviceMotionEvent,
                 cryptoSubtle, dashVars,
                 collVars, clockVars, genVars, nEvents, nTicks>>

clearEntropy ==
  /\ entropyPool' = <<>>
  /\ timerDeltas' = <<>>
  /\ eventCount' = ZeroCount
  /\ recordedB' = <<>>
  /\ recordedT' = <<>>
  /\ trims' = NoTrims
  /\ delivered' = ZeroDelivered
  /\ lastCall' = Called("clearEntropy")
  /\ UNCHANGED <<dashVars, cfgVars, collVars, clockVars, genVars, nEvents, nTicks>>

(* ------------------------------------------------------------------------ *)
(* TimerJitterSource                                                        *)
(* ------------------------------------------------------------------------ *)
\* the timer pool after _collectTimerDelta() at time t
TimerPush_deltaOnly(pool, t, last) ==
  LET pushed == pool \o <<t - last>>
  IN IF Len(pushed) > TimerCap THEN SliceLast(pushed, TimerKeep) ELSE pushed

TimerPush(pool, t, last) ==
  LET pushed == pool \o <<t - last, DateNow(t)>>
  IN IF Len(pushed) > TimerCap THEN SliceLast(pushed, TimerKeep) ELSE pushed

_collectTimerDelta ==
  /\ now' = now + 1
  /\ lastTimestamp' = now + 1
  /\ timerDeltas' = TimerPush(timerDeltas, now + 1, lastTimestamp)
  /\ recordedT' = recordedT \o <<(now + 1) - lastTimestamp, DateNow(now + 1)>>
  /\ trims' = [trims EXCEPT !.timer =
                 <<[overflowed |-> Len(timerDeltas) + 2 > TimerCap,
                    left |-> Len(timerDeltas'),
                    newest |-> timerDeltas' = SliceLast(recordedT', Len(timerDeltas'))]>>]

\* rafCollect: the frame callback with handle id fires
rafCollect(id) ==
  /\ id \in rafPending
  /\ nTicks' = nTicks + 1
  /\ lastCall' = NoCall
  /\ IF ~isCollecting
     THEN /\ rafPending' = rafPending \ {id}
          /\ UNCHANGED <<now, lastTimestamp, timerDeltas, recordedT, trims, rafId>>
     ELSE /\ _collectTimerDelta
          /\ rafId' = FreshId(rafPending \ {id})
          /\ rafPending' = (rafPending \ {id}) \cup {FreshId(rafPending \ {id})}
  /\ UNCHANGED <<dashVars, cfgVars, genVars, entropyPool, eventCount, recordedB, delivered, nEvents,
                 isCollecting, timerId1, timerId2, listeners, intervals, timeouts>>

\* the setInterval callback with handle id fires
intervalCollect(id) ==
  /\ id \in intervals
  /\ nTicks' = nTicks + 1
  /\ lastCall' = NoCall
  /\ IF isCollecting
     THEN _collectTimerDelta
     ELSE UNCHANGED <<now, lastTimestamp, timerDeltas, recordedT, trims>>
  /\ UNCHANGED <<dashVars, cfgVars, genVars, collVars, entropyPool, eventCount, recordedB,
                 delivered, nEvents>>

\* recursiveTimeout: the setTimeout callback with handle id fires
recursiveTimeout(id) ==
  /\ id \in timeouts
  /\ nTicks' = nTicks + 1
  /\ lastCall' = NoCall
  /\ IF ~isCollecting
     THEN /\ timeouts' = timeouts \ {id}
          /\ UNCHANGED <<now, lastTimestamp, timerDeltas, recordedT, trims, timerId2>>
     ELSE /\ _collectTimerDelta
          /\ timerId2' = FreshId(intervals \cup (timeouts \ {id}))
          /\ timeouts' = (timeouts \ {id}) \cup {FreshId(intervals \cup (timeouts \ {id}))}
  /\ UNCHANGED <<dashVars, cfgVars, genVars, entropyPool, eventCount, recordedB, delivered, nEvents,
                 isCollecting, timerId1, rafId, listeners, rafPending, intervals>>

\* the body of startCollecting() past its guard, _startTimerJitter() included
Start ==
  LET r == FreshId(rafPending)
      a == FreshId(intervals \cup timeouts)
      b == FreshId(intervals \cup timeouts \cup {a})
  IN /\ isCollecting' = TRUE
     /\ listeners' = listeners \cup Registered(DeviceMotionEvent)
     /\ rafId' = r
     /\ rafPending' = rafPending \cup {r}
     /\ timerId1' = a
     /\ intervals' = intervals \cup {a}
     /\ timerId2' = b
     /\ timeouts' = timeouts \cup {b}

\* the body of stopCollecting() past its guard, _stopTimerJitter() included
Stop ==
  /\ isCollecting' = FALSE
  /\ listeners' = listeners \ Registered(DeviceMotionEvent)
  /\ intervals' = IF timerId1 # 0 THEN intervals \ {timerId1} ELSE intervals
  /\ timerId1' = 0
  /\ timeouts' = IF timerId2 # 0 THEN timeouts \ {timerId2} ELSE timeouts
  /\ timerId2' = 0
  /\ rafPending' = IF rafId # 0 THEN rafPending \ {rafId} ELSE rafPending
  /\ rafId' = 0

startCollecting_resets ==
  /\ lastCall' = Called("startCollecting")
  /\ IF isCollecting
     THEN UNCHANGED <<collVars, poolVars>>
     ELSE /\ Start
          /\ entropyPool' = <<>>
          /\ timerDeltas' = <<>>
          /\ eventCount' = ZeroCount
  /\ UNCHANGED <<dashVars, cfgVars, clockVars, histVars, genVars>>

startCollecting_unguarded ==
  /\ lastCall' = Called("startCollecting")
  /\ Start
  /\ UNCHANGED <<dashVars, cfgVars, poolVars, clockVars, histVars, genVars>>

startCollecting ==
  /\ lastCall' = Called("startCollecting")
  /\ IF isCollecting THEN UNCHANGED collVars ELSE Start
  /\ UNCHANGED <<dashVars, cfgVars, poolVars, clockVars, histVars, genVars>>

stopCollecting_keepInterval ==
  /\ lastCall' = Called("stopCollecting")
  /\ IF ~isCollecting
     THEN UNCHANGED collVars
     ELSE /\ isCollecting' = FALSE
          /\ listeners' = listeners \ Registered(DeviceMotionEvent)
          /\ timeouts' = timeouts \ {timerId2}
          /\ timerId2' = 0
          /\ rafPending' = rafPending \ {rafId}
          /\ rafId' = 0
          /\ UNCHANGED <<timerId1, intervals>>
  /\ UNCHANGED <<dashVars, cfgVars, poolVars, clockVars, histVars, genVars>>

stopCollecting_abortsDerivations ==
  /\ lastCall' = Called("stopCollecting")
  /\ IF ~isCollecting THEN UNCHANGED collVars ELSE Stop
  /\ calls' = [c \in DOMAIN calls |->
                IF calls[c].pc \in {"idle", "resolved", "rejected"}
                THEN calls[c] ELSE [pc |-> "aborted"]]
  /\ UNCHANGED <<dashVars, cfgVars, poolVars, clockVars, histVars, draws>>

stopCollecting_dropsTimerPool ==
  /\ lastCall' = Called("stopCollecting")
  /\ IF ~isCollecting THEN UNCHANGED collVars ELSE Stop
  /\ timerDeltas' = <<>>
  /\ UNCHANGED <<dashVars, cfgVars, entropyPool, eventCount, clockVars, histVars, genVars>>

stopCollecting ==
  /\ lastCall' = Called("stopCollecting")
  /\ IF ~isCollecting THEN UNCHANGED collVars ELSE Stop
  /\ UNCHANGED <<dashVars, cfgVars, poolVars, clockVars, histVars, genVars>>

(* ------------------------------------------------------------------------ *)
(* Construction.  Constructed(ac, dm) is the instance new ntrpRNG({iterations,*)
(* saltSize, autoCollect: ac}) returns on a host where DeviceMotionEvent    *)
(* exists iff dm.  After(ac, dm, m, k, n) is that instance after m firings  *)
(* the interval timer followed by k keydown events, none of which overflows *)
(* a pool (2m <= 1000, 4k <= 5000).                                         *)
(* ------------------------------------------------------------------------ *)
Callers == {1, 2}

IdleCall == [pc |-> "idle"]

After(ac, dm, m, k, n) ==
  /\ constants = BuiltIn
  /\ iterations = n
  /\ saltSize = SaltSize
  /\ autoCollect = ac
  /\ minEvents = 500
  /\ DeviceMotionEvent = dm
  /\ entropyPool = [i \in 1..(4 * k) |->
                      CASE (i - 1) % 4 = 0 -> m + ((i - 1) \div 4) + 1
                        [] (i - 1) % 4 = 1 -> KeyEvent.keyCode
                        [] (i - 1) % 4 = 2 -> KeyEvent.which
                        [] OTHER -> 0]
  /\ timerDeltas = [i \in 1..(2 * m) |->
                      IF i % 2 = 1 THEN 1 ELSE DateNow(i \div 2)]
  /\ eventCount = [ZeroCount EXCEPT !.keyboard = 3 * k]
  /\ lastTimestamp = m
  /\ now = m + k
  /\ isCollecting = ac
  /\ listeners = IF ac THEN Registered(dm) ELSE {}
  /\ rafId = IF ac THEN 1 ELSE 0
  /\ timerId1 = IF ac THEN 1 ELSE 0
  /\ timerId2 = IF ac THEN 2 ELSE 0
  /\ rafPending = IF ac THEN {1} ELSE {}
  /\ intervals = IF ac THEN {1} ELSE {}
  /\ timeouts = IF ac THEN {2} ELSE {}
  /\ calls = [c \in Callers |-> IdleCall]
  /\ recordedB = entropyPool
  /\ recordedT = timerDeltas
  /\ delivered = [ZeroDelivered EXCEPT !.keydown = k]
  /\ draws = [salt |-> 0, random |-> 0]
  /\ nEvents = 0
  /\ nTicks = 0
  /\ trims = NoTrims
  /\ lastCall = NoCall

Constructed(ac, dm, n) == After(ac, dm, 0, 0, n)

(* ------------------------------------------------------------------------ *)
(* Encodings                                                                *)
(* ------------------------------------------------------------------------ *)
HexDigits ==
  <<"0", "1", "2", "3", "4", "5", "6", "7", "8", "9", "a", "b", "c", "d", "e", "f">>

\* Number.prototype.toString(16) of a byte
ToString16(b) ==
  IF b < 16 THEN <<HexDigits[b + 1]>>
  ELSE <<HexDigits[(b \div 16) + 1], HexDigits[(b % 16) + 1]>>

\* String.prototype.padStart(2, '0')
PadStart2(str) == IF Len(str) < 2 THEN <<"0">> \o str ELSE str

\* toHex(bytes): a string is the sequence of its characters
toHex(bytes) ==
  Flatten([i \in 1..Len(bytes) |-> PadStart2(ToString16(bytes[i]))])

Base64Alphabet ==
  <<"A", "B", "C", "D", "E", "F", "G", "H", "I", "J", "K", "L", "M",
     "N", "O", "P", "Q", "R", "S", "T", "U", "V", "W", "X", "Y", "Z", "a",
     "b", "c", "d", "e", "f", "g", "h", "i", "j", "k", "l", "m", "n", "o",
     "p", "q", "r", "s", "t", "u", "v", "w", "x", "y", "z", "0", "1", "2",
     "3", "4", "5", "6", "7", "8", "9", "+", "/">>

\* toBase64(bytes): btoa(String.fromCharCode(...bytes))
toBase64(bytes) ==
  LET n == Len(bytes)
      at(i) == IF i <= n THEN bytes[i] ELSE 0
      char(j) ==
        LET g == (j - 1) \div 4
            pos == (j - 1) % 4
            b0 == at(3 * g + 1)
            b1 == at(3 * g + 2)
            b2 == at(3 * g + 3)
        IN CASE pos = 0 -> Base64Alphabet[(b0 \div 4) + 1]
             [] pos = 1 -> Base64Alphabet[((b0 % 4) * 16 + (b1 \div 16)) + 1]
             [] pos = 2 -> IF 3 * g + 2 > n THEN "="
                           ELSE Base64Alphabet[((b1 % 16) * 4 + (b2 \div 64)) + 1]
             [] OTHER -> IF 3 * g + 3 > n THEN "="
                         ELSE Base64Alphabet[(b2 % 64) + 1]
  IN [j \in 1..(4 * ((n + 2) \div 3)) |-> char(j)]

(* ------------------------------------------------------------------------ *)
(* The bytes a digest consists of.  SHA-256 and SHA-512 are not computed:   *)
(* DigestBytes stands for the bytes of a digest, a function of its input    *)
(* (equal inputs give equal bytes) that produces every kind of byte the     *)
(* encodings treat differently.  Checksum summarises the input down to a    *)
(* fixed nesting depth, which reaches the salt and the random bytes of a    *)
(* final seed.                                                              *)
(* ------------------------------------------------------------------------ *)
RECURSIVE Checksum(_, _)
RECURSIVE ChecksumAll(_, _)
ChecksumAll(parts, depth) ==
  IF parts = <<>> THEN 0
  ELSE (Checksum(Head(parts), depth) + 3 * ChecksumAll(Tail(parts), depth)) % 256
Checksum(x, depth) ==
  IF depth = 0 THEN 1
  ELSE CASE x.k = "bytes" ->
              IF x.b = <<>> THEN 0 ELSE (Len(x.b) + x.b[1] + x.b[Len(x.b)]) % 256
         [] x.k = "digest" -> (31 * Checksum(x.in, depth - 1) + DigestLen(x.alg)) % 256
         [] x.k = "cat" -> ChecksumAll(x.parts, depth - 1)
         [] x.k = "xor" ->
              (Checksum(x.a, depth - 1) + 7 * Checksum(x.b, depth - 1)) % 256
         [] x.k = "slice" -> (Checksum(x.of, depth - 1) + x.n) % 256
         [] OTHER -> 0

DigestBytes(d) ==
  LET c == Checksum(d, 6)
  IN [i \in 1..ByteLen(d) |-> (c + 13 * i) % 256]

(* ------------------------------------------------------------------------ *)
(* ProgressTracker / integrity guard                                        *)
(* ------------------------------------------------------------------------ *)
\* the integrity checks of hasMinimumEntropy() and generateSeed() pass
IntegrityOk_skipsVerifyC ==
  /\ constants.REQUIRED_MIN_EVENTS = constants._VERIFY_A
  /\ constants.REQUIRED_MIN_EVENTS = constants._VERIFY_B
  /\ minEvents = 500

IntegrityOk ==
  /\ ConstantsAgree(constants)
  /\ minEvents = 500

\* hasMinimumEntropy(), past its integrity check
hasMinimumEntropy_strict(ec, pool, timers) ==
  /\ _getWeightedEventCount(ec) > 500
  /\ Len(pool) > 0
  /\ Len(timers) > 0

hasMinimumEntropy_countOnly(ec, pool, timers) ==
  _getWeightedEventCount(ec) >= 500

hasMinimumEntropy(ec, pool, timers) ==
  /\ _getWeightedEventCount(ec) >= 500
  /\ Len(pool) > 0
  /\ Len(timers) > 0

\* getStats()
getStats ==
  [entropyPoolSize |-> Len(entropyPool),
   timerDeltasSize |-> Len(timerDeltas),
   isCollecting |-> isCollecting,
   eventCount |-> eventCount,
   totalEvents |-> _getWeightedEventCount(eventCount),
   minEvents |-> minEvents,
   hasMinimumEntropy |-> hasMinimumEntropy(eventCount, entropyPool, timerDeltas)]

\* the Error generateSeed throws when validation fails: the numbers its message holds
InsufficientEntropy ==
  [kind |-> "insufficient",
   current |-> getStats.totalEvents,
   required |-> 500,
   pool |-> Len(entropyPool),
   timer |-> Len(timerDeltas)]

IntegrityError == [kind |-> "integrity"]

(* ------------------------------------------------------------------------ *)
(* DualPathSeedDeriver.  A call of generateSeed / generateSeedHex /         *)
(* generateSeedBase64 runs from one suspension point to the next in one     *)
(* step; pc names the source line of the await the call is suspended at.    *)
(* ------------------------------------------------------------------------ *)
\* what crypto.getRandomValues may write into an array of n bytes
RandomFills(n) == {[i \in 1..n |-> (r + 37 * i) % 256] : r \in {0, 101}}

\* generateSalt()
generateSalt(fill) == Bytes(fill)

\* the call of slot c suspended at line 396, right after its synchronous start:
\* salt drawn, both pools serialized, the first digest requested
Begin(api, skip, fill) ==
  [pc |-> "L396", api |-> api, skipValidation |-> skip,
   salt |-> generateSalt(fill),
   entropyBytes |-> _serializeFloats(entropyPool),
   timerBytes |-> _serializeFloats(timerDeltas),
   entropyHash |-> Nil, timerHash |-> Nil, combined |-> Nil, preHash |-> Nil,
   algorithm |-> "none", hash |-> Nil, i |-> 0,
   hash256_A |-> Nil, user_final |-> Nil, random_bytes |-> Nil,
   hash256_B |-> Nil, csprng_final |-> Nil, intermediate |-> Nil,
   finalSeed |-> Nil, result |-> Nil, error |-> Nil,
   startPool |-> entropyPool, startTimer |-> timerDeltas]

\* crypto.subtle.digest can be called
DigestAvailable_always == TRUE

DigestAvailable == cryptoSubtle

\* the TypeError of reading .digest of crypto.subtle when it is undefined
SubtleUndefined == [kind |-> "TypeError", reading |-> "digest"]

Reject(api, skip, err) ==
  [pc |-> "rejected", api |-> api, skipValidation |-> skip, error |-> err]

\* the validation of generateSeed fails
ValidationFails_countOnly(skip) ==
  ~skip /\ ~hasMinimumEntropy_countOnly(eventCount, entropyPool, timerDeltas)

ValidationFails_ignoresSkip(skip) ==
  ~hasMinimumEntropy(eventCount, entropyPool, timerDeltas)

ValidationFails(skip) ==
  ~skip /\ ~hasMinimumEntropy(eventCount, entropyPool, timerDeltas)

\* generateSeed(skipValidation), called through api, up to its first await
generateSeed(c, api, skip) ==
  /\ calls[c].pc = "idle"
  /\ lastCall' = Called(api)
  /\ IF ~IntegrityOk
     THEN /\ calls' = [calls EXCEPT ![c] = Reject(api, skip, IntegrityError)]
          /\ UNCHANGED draws
     ELSE IF ValidationFails(skip)
     THEN /\ calls' = [calls EXCEPT ![c] = Reject(api, skip, InsufficientEntropy)]
          /\ UNCHANGED draws
     ELSE \E fill \in RandomFills(saltSize) :
            /\ calls' = [calls EXCEPT ![c] =
                           IF DigestAvailable THEN Begin(api, skip, fill)
                           ELSE Reject(api, skip, SubtleUndefined)]
            /\ draws' = [draws EXCEPT !.salt = @ + 1]
  /\ UNCHANGED <<dashVars, cfgVars, poolVars, collVars, clockVars, histVars>>

\* the bytes combineEntropy hashes at line 399
TimerBytesHashed_reread(call) == _serializeFloats(timerDeltas)

TimerBytesHashed(call) == call.timerBytes

\* combineEntropy past line 399, and generateSeed up to line 530
AfterTimerHash_noSalt(call) ==
  LET timerHash == digest("SHA-256", TimerBytesHashed(call))
      combined == Concat(<<call.entropyHash, timerHash, Bytes(<<>>)>>)
  IN [call EXCEPT !.pc = "L530", !.timerHash = timerHash, !.combined = combined]

AfterTimerHash(call) ==
  LET timerHash == digest("SHA-256", TimerBytesHashed(call))
      combined == Concat(<<call.entropyHash, timerHash, call.salt>>)
  IN [call EXCEPT !.pc = "L530", !.timerHash = timerHash, !.combined = combined]

\* _iterativeHash(data, algorithm, iterations) up to its first await
EnterIterativeHash(call, data, algorithm) ==
  [call EXCEPT !.pc = "L429", !.algorithm = algorithm, !.hash = data, !.i = 0]

\* Path B up to line 543: the Path A result, then the random bytes
EnterPathB(call, hash512_A_full, fill) ==
  [call EXCEPT !.pc = "L543",
               !.user_final = _xorArrays(call.hash256_A, _truncate512(hash512_A_full)),
               !.random_bytes = Bytes(fill)]

\* the for loop of _iterativeHash once round i is over (i++ and the loop test)
NextRound(call, fill) ==
  IF call.i + 1 < iterations
  THEN [call EXCEPT !.pc = "L429", !.i = call.i + 1]
  ELSE IF call.algorithm = "SHA-256"
  THEN EnterIterativeHash([call EXCEPT !.hash256_A = call.hash], call.preHash, "SHA-512")
  ELSE EnterPathB(call, call.hash, fill)

\* the yield test of _iterativeHash after round i
YieldsAfter_beforeRound(i) == i % batchSize = 0

YieldsAfter(i) == (i + 1) % batchSize = 0

\* the input of the final mixing: user_final, csprng_final, salt
FinalInput_noPathB(call) == Concat(<<call.user_final, call.salt>>)

FinalInput(call) == Concat(<<call.user_final, call.csprng_final, call.salt>>)

\* the final SHA-512 of generateSeed
FinalDigest_sha256(intermediate) == digest("SHA-256", intermediate)

FinalDigest(intermediate) == digest("SHA-512", intermediate)

\* what the public operation resolves with
Resolve(api, finalSeed) ==
  CASE api = "generateSeedHex" -> toHex(DigestBytes(finalSeed))
    [] api = "generateSeedBase64" -> toBase64(DigestBytes(finalSeed))
    [] OTHER -> finalSeed

\* the bytes combineEntropy hashes at line 396
EntropyBytesHashed_reread(call) == _serializeFloats(entropyPool)

EntropyBytesHashed(call) == call.entropyBytes

\* the call as it is after the await it is suspended at completes; fill is what
\* crypto.getRandomValues writes if the call reaches line 541 in this step
Resumed(call, fill) ==
  CASE call.pc = "L396" ->
         [call EXCEPT !.pc = "L399",
                      !.entropyHash = digest("SHA-256", EntropyBytesHashed(call))]
    [] call.pc = "L399" -> AfterTimerHash(call)
    [] call.pc = "L530" ->
         LET preHash == digest("SHA-256", call.combined)
         IN IF 0 < iterations
            THEN EnterIterativeHash([call EXCEPT !.preHash = preHash], preHash, "SHA-256")
            ELSE EnterPathB([call EXCEPT !.preHash = preHash, !.hash256_A = preHash],
                            preHash, fill)
    [] call.pc = "L429" ->
         LET hashed == [call EXCEPT !.hash = digest(call.algorithm, call.hash)]
         IN IF YieldsAfter(call.i)
            THEN [hashed EXCEPT !.pc = "L434"]
            ELSE NextRound(hashed, fill)
    [] call.pc = "L434" -> NextRound(call, fill)
    [] call.pc = "L543" ->
         [call EXCEPT !.pc = "L546",
                      !.hash256_B = digest("SHA-256", call.random_bytes)]
    [] call.pc = "L546" ->
         LET hash512_B == _truncate512(digest("SHA-512", call.random_bytes))
             csprng_final == _xorArrays(call.hash256_B, hash512_B)
         IN [call EXCEPT !.pc = "L563", !.csprng_final = csprng_final]
    [] call.pc = "L563" ->
         [call EXCEPT !.pc = "L566",
                      !.intermediate = digest("SHA-512", FinalInput(call))]
    [] call.pc = "L566" ->
         LET finalSeed == FinalDigest(call.intermediate)
         IN [call EXCEPT !.pc = "resolved", !.finalSeed = finalSeed,
                         !.result = Resolve(call.api, finalSeed)]

Suspended(c) == calls[c].pc \notin {"idle", "resolved", "rejected"}

\* a digest or a zero-delay timeout completes and the call of slot c runs on
Resume(c) ==
  /\ Suspended(c)
  /\ lastCall' = NoCall
  /\ \E fill \in RandomFills(RandomBytesLen) :
       LET resumed == Resumed(calls[c], fill)
       IN /\ calls' = [calls EXCEPT ![c] = resumed]
          /\ draws' = IF resumed.random_bytes # calls[c].random_bytes
                      THEN [draws EXCEPT !.random = @ + 1]
                      ELSE draws
  /\ UNCHANGED <<dashVars, cfgVars, poolVars, collVars, clockVars, histVars>>

(* ------------------------------------------------------------------------ *)
(* Next-state relations                                                     *)
(* ------------------------------------------------------------------------ *)
APIs == {"generateSeed", "generateSeedHex", "generateSeedBase64"}

\* the host delivers an event to its registered handler
MouseMove == nEvents < MaxEvents /\ \E e \in MouseMoveEvents : _onMouseMove(e)
MouseDown == nEvents < MaxEvents /\ \E e \in MouseDownEvents : _onMouseDown(e)
KeyDown == nEvents < MaxEvents /\ \E e \in KeyDownEvents : _onKeyDown(e)
TouchStart == nEvents < MaxEvents /\ \E e \in TouchEvents : _onTouchStart(e)
TouchMove == nEvents < MaxEvents /\ \E e \in TouchEvents : _onTouchMove(e)
Scroll == nEvents < MaxEvents /\ \E w \in ScrollStates : _onScroll(w)
DeviceMotion == nEvents < MaxEvents /\ \E e \in DeviceMotionEvents : _onDeviceMotion(e)

\* one of the three timer triggers fires
RafTick == nTicks < MaxTicks /\ \E id \in rafPending : rafCollect(id)
IntervalTick == nTicks < MaxTicks /\ \E id \in intervals : intervalCollect(id)
TimeoutTick == nTicks < MaxTicks /\ \E id \in timeouts : recursiveTimeout(id)

(* Spec: the collection lifecycle of a freshly constructed instance.         *)
InitLife ==
  \E ac \in BOOLEAN, dm \in BOOLEAN :
    Constructed(ac, dm, FewIterations) /\ PageWithoutDashboard
NextLife ==
  \/ startCollecting \/ stopCollecting \/ clearEntropy
  \/ MouseMove \/ MouseDown \/ KeyDown \/ TouchStart \/ TouchMove \/ Scroll
  \/ DeviceMotion
  \/ RafTick \/ IntervalTick \/ TimeoutTick
Spec == InitLife /\ [][NextLife]_vars

(* SpecPool: collection on an instance that is collecting, from four states: *)
(* just constructed; one tick and 166 keydown events (weighted total 498);  *)
(* 167 keydown events and no tick (weighted total 501, timer pool empty);   *)
(* 499 ticks and 1249 keydown events (998 and 4996 values).                 *)
PoolBursts == {<<0, 0>>, <<1, 166>>, <<0, 167>>, <<499, 1249>>}
InitPool ==
  \E b \in PoolBursts :
    After(TRUE, TRUE, b[1], b[2], FewIterations) /\ PageWithoutDashboard
NextPool ==
  \/ clearEntropy
  \/ MouseMove \/ MouseDown \/ KeyDown \/ TouchStart \/ TouchMove \/ Scroll
  \/ DeviceMotion
  \/ RafTick \/ IntervalTick \/ TimeoutTick
SpecPool == InitPool /\ [][NextPool]_vars

\* a public generation operation is called in slot c
Generate(c) == \E api \in APIs, skip \in BOOLEAN : generateSeed(c, api, skip)

(* SpecGen: one generation call on a collecting instance, with keydown      *)
(* events and clearEntropy() at any of its suspension points; from a fresh  *)
(* instance, from one tick and 166 keydown events (weighted total 498, one  *)
(* more keydown event reaches the threshold) and from 167 keydown events    *)
(* and no tick (weighted total 501, timer pool empty).                      *)
GenBursts == {<<0, 0>>, <<1, 166>>, <<0, 167>>}
InitGen ==
  \E b \in GenBursts :
    After(TRUE, TRUE, b[1], b[2], FewIterations) /\ PageWithoutDashboard
NextGen == Generate(1) \/ Resume(1) \/ KeyDown \/ clearEntropy
SpecGen == InitGen /\ [][NextGen]_vars

(* SpecConc: two generation calls, in any interleaving, on an instance      *)
(* whose accumulator holds one tick and one keydown event and stays as is.  *)
InitConc == After(TRUE, TRUE, 1, 1, FewIterations) /\ PageWithoutDashboard
GenerateAny == \E c \in Callers : Generate(c)
ResumeAny == \E c \in Callers : Resume(c)
NextConc == GenerateAny \/ ResumeAny
SpecConc == InitConc /\ [][NextConc]_vars

\* generateSeed(skipValidation) is called in slot c
GenerateSeed(c) == \E skip \in BOOLEAN : generateSeed(c, "generateSeed", skip)

(* SpecReady: a ready instance that keeps what it has accumulated, under    *)
(* keydown events, ticks, stopCollecting, startCollecting and one           *)
(* generateSeed() call at any of its suspension points; from 499 ticks and  *)
(* 167 keydown events (weighted total 501, 998 timer values: the second     *)
(* tick trims the timer pool).                                              *)
ReadyBursts == {<<499, 167>>}
GenerateSeedValidated(c) == generateSeed(c, "generateSeed", FALSE)
InitReady ==
  \E b \in ReadyBursts :
    After(TRUE, TRUE, b[1], b[2], FewIterations) /\ PageWithoutDashboard
NextReady ==
  \/ startCollecting \/ stopCollecting
  \/ KeyDown
  \/ IntervalTick
  \/ GenerateSeedValidated(1) \/ Resume(1)
SpecReady == InitReady /\ [][NextReady]_vars

(* SpecLive: collection next to the threshold, with stopCollecting() and    *)
(* clearEntropy(); from 166 keydown events (weighted total 498) and from    *)
(* 499 keydown events, each before the first tick and after it.  Events    *)
(* that are counted and timer ticks keep being delivered as long as the     *)
(* host can deliver them.                                                   *)
LiveBursts == {<<0, 166>>, <<1, 166>>, <<0, 499>>, <<1, 499>>}
CountedEvent == MouseMove \/ KeyDown \/ TouchStart \/ Scroll
Tick == RafTick \/ IntervalTick \/ TimeoutTick
InitLive ==
  \E b \in LiveBursts :
    After(TRUE, TRUE, b[1], b[2], FewIterations) /\ PageWithoutDashboard
NextLive == CountedEvent \/ Tick \/ stopCollecting \/ clearEntropy
SpecLive == InitLive /\ [][NextLive]_vars /\ WF_vars(CountedEvent) /\ WF_vars(Tick)

(* SpecIter: one generateSeed() call that hashes a full batch and yields,    *)
(* with stopCollecting() and clearEntropy() at any of its suspension points. *)
(* Every digest and every zero-delay timeout completes: a suspended call is *)
(* eventually resumed.                                                      *)
InitIter == After(TRUE, TRUE, 1, 1, BatchIterations) /\ PageWithoutDashboard
NextIter == GenerateSeed(1) \/ Resume(1) \/ stopCollecting \/ clearEntropy
SpecIter == InitIter /\ [][NextIter]_vars /\ WF_vars(Resume(1))

(* ------------------------------------------------------------------------ *)
(* Construction from options, the integrity guard of the public operations  *)
(* and the calls that return a value.  An absent field of options is        *)
(* undefined.                                                               *)
(* ------------------------------------------------------------------------ *)
\* undefined, which no number equals
Undefined == 0 - 1

DefaultIterations == 5000
DefaultSaltSize == 32

\* options.field || default
OptionOr(options, field, default) ==
  IF field \in DOMAIN options /\ options[field] # 0 THEN options[field] ELSE default

\* this.minEvents as the constructor sets it
HardcodedMinEvents_fromOptions(options) ==
  IF "minEvents" \in DOMAIN options THEN options.minEvents ELSE 500

HardcodedMinEvents(options) == 500

\* options.autoCollect !== false
AutoCollectOption_defaultOff(options) ==
  "autoCollect" \in DOMAIN options /\ options.autoCollect = TRUE

AutoCollectOption(options) ==
  ~("autoCollect" \in DOMAIN options /\ options.autoCollect = FALSE)

\* options.minEvents !== undefined && options.minEvents !== 500: console.warn
WarnsOverride(options) ==
  "minEvents" \in DOMAIN options /\ options.minEvents # 500

\* the object the constructor leaves behind when it throws at its first
\* statement: no field is set, nothing is registered with the host
Bare(c, dm) ==
  /\ constants = c
  /\ iterations = Undefined
  /\ saltSize = Undefined
  /\ autoCollect = FALSE
  /\ minEvents = Undefined
  /\ DeviceMotionEvent = dm
  /\ entropyPool = <<>>
  /\ timerDeltas = <<>>
  /\ eventCount = ZeroCount
  /\ lastTimestamp = 0
  /\ now = 0
  /\ isCollecting = FALSE
  /\ listeners = {}
  /\ rafId = 0 /\ timerId1 = 0 /\ timerId2 = 0
  /\ rafPending = {} /\ intervals = {} /\ timeouts = {}
  /\ calls = [c2 \in Callers |-> IdleCall]
  /\ recordedB = <<>>
  /\ recordedT = <<>>
  /\ delivered = ZeroDelivered
  /\ draws = [salt |-> 0, random |-> 0]
  /\ nEvents = 0
  /\ nTicks = 0
  /\ trims = NoTrims

\* new ntrpRNG(options) in a build whose constants are c, on a host where
\* DeviceMotionEvent exists iff dm
constructor(options, c, dm) ==
  IF ~ConstantsAgree(c)
  THEN /\ Bare(c, dm)
       /\ lastCall = [op |-> "constructor", collecting |-> FALSE,
                      threw |-> TRUE, error |-> IntegrityError]
  ELSE LET ac == AutoCollectOption(options)
       IN /\ constants = c
          /\ iterations = OptionOr(options, "iterations", DefaultIterations)
          /\ saltSize = OptionOr(options, "saltSize", DefaultSaltSize)
          /\ autoCollect = ac
          /\ minEvents = HardcodedMinEvents(options)
          /\ DeviceMotionEvent = dm
          /\ entropyPool = <<>>
          /\ timerDeltas = <<>>
          /\ eventCount = ZeroCount
          /\ lastTimestamp = 0
          /\ now = 0
          /\ isCollecting = ac
          /\ listeners = IF ac THEN Registered(dm) ELSE {}
          /\ rafId = IF ac THEN 1 ELSE 0
          /\ timerId1 = IF ac THEN 1 ELSE 0
          /\ timerId2 = IF ac THEN 2 ELSE 0
          /\ rafPending = IF ac THEN {1} ELSE {}
          /\ intervals = IF ac THEN {1} ELSE {}
          /\ timeouts = IF ac THEN {2} ELSE {}
          /\ calls = [c2 \in Callers |-> IdleCall]
          /\ recordedB = <<>>
          /\ recordedT = <<>>
          /\ delivered = ZeroDelivered
          /\ draws = [salt |-> 0, random |-> 0]
          /\ nEvents = 0
          /\ nTicks = 0
          /\ trims = NoTrims
          /\ lastCall = [op |-> "constructor", collecting |-> FALSE,
                         threw |-> FALSE, warned |-> WarnsOverride(options),
                         options |-> options]

\* greatest common divisor
RECURSIVE Gcd(_, _)
Gcd(a, b) == IF b = 0 THEN a ELSE Gcd(b, a % b)

\* the number n / d, in lowest terms
Ratio(n, d) == [num |-> n \div Gcd(n, d), den |-> d \div Gcd(n, d)]

\* Math.min(100, (currentEvents / 500) * 100)
Percentage_uncapped(currentEvents) == Ratio(currentEvents * 100, 500)

Percentage(currentEvents) ==
  IF currentEvents * 100 >= 100 * 500
  THEN Ratio(100, 1)
  ELSE Ratio(currentEvents * 100, 500)

\* getProgress()
getProgress ==
  LET currentEvents == _getWeightedEventCount(eventCount)
  IN [currentEvents |-> currentEvents,
      requiredEvents |-> 500,
      percentage |-> Percentage(currentEvents),
      ready |-> currentEvents >= 500]

\* a call that returned value / that threw error
Returned(op, value) ==
  [op |-> op, collecting |-> isCollecting, threw |-> FALSE, value |-> value]
Threw(op, error) ==
  [op |-> op, collecting |-> isCollecting, threw |-> TRUE, error |-> error]

\* the host calls hasMinimumEntropy()
CallHasMinimumEntropy ==
  /\ lastCall' =
       IF ~IntegrityOk
       THEN Threw("hasMinimumEntropy", IntegrityError)
       ELSE Returned("hasMinimumEntropy",
                     hasMinimumEntropy(eventCount, entropyPool, timerDeltas))
  /\ UNCHANGED <<dashVars, cfgVars, poolVars, collVars, clockVars, histVars, genVars>>

\* the host calls getProgress()
CallGetProgress ==
  /\ lastCall' = Returned("getProgress", getProgress)
  /\ UNCHANGED <<dashVars, cfgVars, poolVars, collVars, clockVars, histVars, genVars>>

\* the host calls getStats(), which calls hasMinimumEntropy()
CallGetStats ==
  /\ lastCall' =
       IF ~IntegrityOk
       THEN Threw("getStats", IntegrityError)
       ELSE Returned("getStats", getStats)
  /\ UNCHANGED <<dashVars, cfgVars, poolVars, collVars, clockVars, histVars, genVars>>

\* values written to the public field minEvents from outside the class
TamperedMinEvents == {100, 500}

\* the host assigns instance.minEvents
AssignMinEvents ==
  /\ \E v \in TamperedMinEvents : minEvents' = v
  /\ minEvents' # minEvents
  /\ lastCall' = [op |-> "assignMinEvents", collecting |-> isCollecting]
  /\ UNCHANGED <<constants, iterations, saltSize, autoCollect, DeviceMotionEvent,
                 cryptoSubtle, dashVars,
                 poolVars, collVars, clockVars, histVars, genVars>>

\* the options new ntrpRNG() is called with
OptionSets ==
  {[iterations |-> FewIterations, saltSize |-> SaltSize]}
  \cup {[iterations |-> FewIterations, saltSize |-> SaltSize, autoCollect |-> ac] :
          ac \in BOOLEAN}
  \cup {[iterations |-> FewIterations, saltSize |-> SaltSize, minEvents |-> v] :
          v \in {0, 100, 500, 1000}}

\* builds: the constants as shipped, and one constant patched at a time
ConstantSets ==
  {BuiltIn,
   [BuiltIn EXCEPT !.REQUIRED_MIN_EVENTS = 100],
   [BuiltIn EXCEPT !._VERIFY_A = 100],
   [BuiltIn EXCEPT !._VERIFY_B = 100],
   [BuiltIn EXCEPT !._VERIFY_C = 100]}

(* SpecGuard: the integrity guard.  new ntrpRNG(options) in a build with    *)
(* any of the constant sets; then readiness checks, generation calls,       *)
(* keydown events, clearEntropy() and assignments to minEvents.             *)
InitGuard ==
  \E options \in OptionSets, c \in ConstantSets :
    constructor(options, c, TRUE) /\ PageWithoutDashboard
NextGuard ==
  \/ CallHasMinimumEntropy \/ Generate(1) \/ Resume(1)
  \/ AssignMinEvents \/ KeyDown \/ clearEntropy
SpecGuard == InitGuard /\ [][NextGuard]_vars

(* SpecConfig: an instance constructed from any of the options in the build *)
(* as shipped, with every public operation and keydown events.              *)
InitConfig ==
  \E options \in OptionSets :
    constructor(options, BuiltIn, TRUE) /\ PageWithoutDashboard
NextConfig ==
  \/ startCollecting \/ stopCollecting \/ clearEntropy
  \/ CallHasMinimumEntropy \/ CallGetProgress \/ CallGetStats
  \/ GenerateSeed(1) \/ Resume(1)
  \/ KeyDown
SpecConfig == InitConfig /\ [][NextConfig]_vars

(* SpecProgress: progress reporting on a collecting instance, from a fresh  *)
(* instance, from one tick and 166 keydown events (weighted total 498) and  *)
(* from 499 keydown events.                                                 *)
ProgressBursts == {<<0, 0>>, <<1, 166>>, <<0, 499>>}
InitProgress ==
  \E b \in ProgressBursts :
    After(TRUE, TRUE, b[1], b[2], FewIterations) /\ PageWithoutDashboard
NextProgress ==
  \/ CallGetProgress \/ CallHasMinimumEntropy \/ clearEntropy
  \/ KeyDown \/ MouseMove \/ MouseDown \/ DeviceMotion \/ IntervalTick
SpecProgress == InitProgress /\ [][NextProgress]_vars

(* SpecBatch: one generateSeed(true) call whose two iterative hashes run    *)
(* over more than two batches, with keydown events and clearEntropy() at    *)
(* any of its suspension points.                                            *)
InitBatch == After(TRUE, TRUE, 1, 1, 2 * BatchIterations + 1) /\ PageWithoutDashboard
NextBatch == generateSeed(1, "generateSeed", TRUE) \/ Resume(1) \/ KeyDown \/ clearEntropy
SpecBatch == InitBatch /\ [][NextBatch]_vars

(* ------------------------------------------------------------------------ *)
(* Dashboard (dashboard.js, v1.3.0 compatible).  A step is one task of the  *)
(* page: a click, a timer firing or a digest completing, together with all  *)
(* the promise reactions it triggers.  The transformers below take and      *)
(* return the page state d as a record, in the order the code runs.         *)
(* ------------------------------------------------------------------------ *)
MAX_LOG_ENTRIES == 100
MAX_HISTORY_ENTRIES == 50
MAX_PERF_DATA_POINTS == 50
\* the generations one stressTest() loop asks for
StressRuns == 10
\* the slots of the two derivations one dashboard generation starts
HexSlot == 1
Base64Slot == 2

Page ==
  [isGenerating |-> isGenerating, isStressTestRunning |-> isStressTestRunning,
   perfData |-> perfData, seedHistory |-> seedHistory, eventLog |-> eventLog,
   display |-> display, invocation |-> invocation, loops |-> loops,
   orphans |-> orphans, hist |-> dashHist,
   calls |-> calls, draws |-> draws, now |-> now]

\* the step leaves the page and the rng as d says
Becomes(page) ==
  \E d \in {page} :
    /\ isGenerating' = d.isGenerating
    /\ isStressTestRunning' = d.isStressTestRunning
    /\ perfData' = d.perfData
    /\ seedHistory' = d.seedHistory
    /\ eventLog' = d.eventLog
    /\ display' = d.display
    /\ invocation' = d.invocation
    /\ loops' = d.loops
    /\ orphans' = d.orphans
    /\ dashHist' = d.hist
    /\ calls' = d.calls
    /\ draws' = d.draws
    /\ now' = d.now
    /\ lastCall' = NoCall
    /\ UNCHANGED <<cfgVars, poolVars, collVars, histVars, lastTimestamp>>

\* addLog(type, message): push, then drop the oldest entry above the limit
addLog_dropNewest(d, type, message) ==
  LET logItem == [time |-> DateNow(d.now), type |-> type, message |-> message]
      pushed == Append(d.eventLog, logItem)
  IN [d EXCEPT !.eventLog = IF Len(pushed) > MAX_LOG_ENTRIES
                            THEN SubSeq(pushed, 1, MAX_LOG_ENTRIES) ELSE pushed,
               !.hist.logged = Append(@, logItem)]

addLog(d, type, message) ==
  LET logItem == [time |-> DateNow(d.now), type |-> type, message |-> message]
      pushed == Append(d.eventLog, logItem)
  IN [d EXCEPT !.eventLog = IF Len(pushed) > MAX_LOG_ENTRIES THEN Tail(pushed) ELSE pushed,
               !.hist.logged = Append(@, logItem)]

\* clearLog()
clearLog(d) ==
  addLog([d EXCEPT !.eventLog = <<>>, !.hist.logged = <<>>], "info", "Log cleared")

\* clearHistory()
clearHistory(d) ==
  addLog([d EXCEPT !.seedHistory = <<>>, !.hist.seeds = <<>>], "info", "History cleared")

\* stressTest() from the end of its loop on
exitLoop(d, l) ==
  LET d1 == IF d.isStressTestRunning
            THEN addLog(d, "success", "Stress test completed!") ELSE d
  IN [d1 EXCEPT !.isStressTestRunning = FALSE, !.loops[l].pc = "done"]

\* stressTest() once `await generateSeed()` of line 706 has returned: the log
\* entry, i++, the loop test and the flag test of the next iteration
nextIteration(d, l) ==
  LET d1 == [addLog(d, "info", "Stress test: i/10 completed") EXCEPT !.loops[l].i = @ + 1]
  IN IF d1.loops[l].i > StressRuns THEN exitLoop(d1, l)
     ELSE IF ~d1.isStressTestRunning
          THEN exitLoop(addLog(d1, "info", "Stress test cancelled by user."), l)
          ELSE [d1 EXCEPT !.loops[l].pc = "L696"]

\* whoever awaits the generateSeed() that caller made goes on
afterGeneration(d, caller) ==
  IF caller \in LoopIds THEN nextIteration(d, caller) ELSE d

\* the promise rng.generateSeedHex() / rng.generateSeedBase64() returns, up to
\* the first await of the derivation
Promised(api, fill) ==
  IF ~IntegrityOk THEN Reject(api, FALSE, IntegrityError)
  ELSE IF ValidationFails(FALSE) THEN Reject(api, FALSE, InsufficientEntropy)
  ELSE IF DigestAvailable THEN Begin(api, FALSE, fill)
  ELSE Reject(api, FALSE, SubtleUndefined)

\* the finally block of generateSeed()
finally(d) == [d EXCEPT !.isGenerating = FALSE, !.invocation = [pc |-> "none"]]

\* generateSeed() of the dashboard, called by caller (0: a click), up to its
\* await of line 296 or, when it does not get there, to its end
dashboard_generateSeed_unlocked(d, caller, f1, f2) ==
  LET counted == [d EXCEPT !.hist.invocations = @ + 1]
      d1 == addLog([counted EXCEPT !.isGenerating = TRUE], "info", "Generating seed...")
      hexCall == Promised("generateSeedHex", f1)
      base64Call == Promised("generateSeedBase64", f2)
      d2 == [d1 EXCEPT !.calls[HexSlot] = hexCall, !.calls[Base64Slot] = base64Call]
  IN IF hexCall.pc = "rejected" \/ base64Call.pc = "rejected"
     THEN afterGeneration(finally(addLog(d2, "error", "Generation failed")), caller)
     ELSE [d2 EXCEPT !.draws.salt = @ + 2,
                     !.hist.started = @ + 1,
                     !.invocation = [pc |-> "L296", id |-> counted.hist.invocations,
                                     startTime |-> d.now, caller |-> caller],
                     !.loops = IF caller \in LoopIds
                               THEN [@ EXCEPT ![caller].pc = "L706"] ELSE @]

dashboard_generateSeed(d, caller, f1, f2) ==
  LET counted == [d EXCEPT !.hist.invocations = @ + 1]
  IN IF d.isGenerating THEN afterGeneration(counted, caller)
     ELSE dashboard_generateSeed_unlocked(d, caller, f1, f2)

\* Number.prototype.toFixed(2): a string, kept as the number it prints
toFixed2(x) == [k |-> "fixed2", of |-> x]

\* generateSeed() from line 298 to line 343: the race was won by Promise.all
displaySeed(d) ==
  LET seedHex == d.calls[HexSlot].result
      seedBase64 == d.calls[Base64Slot].result
      duration == d.now - d.invocation.startTime
      pushedPerf == Append(d.perfData, duration)
      entry == [timestamp |-> DateNow(d.now), hex |-> seedHex, base64 |-> seedBase64,
                duration |-> toFixed2(duration),
                config |-> [iterations |-> iterations, saltSize |-> saltSize,
                            minEvents |-> 500]]
      pushedHistory == Append(d.seedHistory, entry)
      d1 == [d EXCEPT
               !.display = [seedHex |-> seedHex, seedBase64 |-> seedBase64],
               !.perfData = IF Len(pushedPerf) > MAX_PERF_DATA_POINTS
                            THEN Tail(pushedPerf) ELSE pushedPerf,
               !.seedHistory = IF Len(pushedHistory) > MAX_HISTORY_ENTRIES
                               THEN SliceLast(pushedHistory, MAX_HISTORY_ENTRIES)
                               ELSE pushedHistory,
               !.hist.perf = Append(@, duration),
               !.hist.seeds = Append(@, entry)]
  IN addLog(d1, "success", "Seed generated")

\* stressTest(), called by a click on #stressTestBtn
stressTest(d) ==
  LET clicked == [d EXCEPT !.hist.clicks = @ + 1]
      free == {l \in LoopIds : d.loops[l].pc = "none"}
      l == CHOOSE x \in free : \A y \in free : x <= y
  IN IF d.isGenerating THEN clicked
     ELSE IF d.isStressTestRunning
     THEN addLog([clicked EXCEPT !.isStressTestRunning = FALSE],
                 "warning", "Stress test cancellation requested...")
     ELSE IF ~isCollecting THEN addLog(clicked, "error", "Start collection first!")
     ELSE addLog([clicked EXCEPT !.isStressTestRunning = TRUE,
                                 !.loops[l] = [pc |-> "L696", i |-> 1]],
                 "info", "Starting stress test: 10 consecutive generations")

\* stressTest() of loop l once the timeout of line 696 has fired
stressTest_afterWait(d, l, f1, f2) ==
  IF ~getProgress.ready
  THEN exitLoop(addLog(d, "error", "Stress test stopped: insufficient weighted entropy"), l)
  ELSE dashboard_generateSeed(d, l, f1, f2)

\* updateUIState: #generateBtn and #stressTestBtn are disabled from the start
\* of a generation to its finally block
ButtonsDisabled == isGenerating

(* Tasks of the page *)
\* bounds of the exploration
MaxInvocations == 3
MaxGenerations == 2
MaxTimeouts == 1
MaxClicks == 3

\* what crypto.getRandomValues writes: any of RandomFills, or always the same
DashFills(n, all) == IF all THEN RandomFills(n) ELSE {[i \in 1..n |-> (37 * i) % 256]}

MayInvoke ==
  /\ dashHist.invocations < MaxInvocations
  /\ dashHist.started < MaxGenerations

ClickGenerate(all) ==
  /\ ~ButtonsDisabled
  /\ MayInvoke
  /\ \E f1 \in DashFills(saltSize, all), f2 \in DashFills(saltSize, all) : Becomes(dashboard_generateSeed(Page, 0, f1, f2))

ClickStressTest ==
  /\ ~ButtonsDisabled
  /\ dashHist.clicks < MaxClicks
  /\ (isStressTestRunning \/ \E l \in LoopIds : loops[l].pc = "none")
  /\ Becomes(stressTest(Page))

StressTimer(all) ==
  \E l \in LoopIds :
    /\ loops[l].pc = "L696"
    /\ MayInvoke
    /\ \E f1 \in DashFills(saltSize, all), f2 \in DashFills(saltSize, all) : Becomes(stressTest_afterWait(Page, l, f1, f2))

\* a digest or a zero-delay timeout that a derivation of the pending
\* generation awaits completes; when that resolves both derivations, the
\* generation and whoever awaits it go on in the same task
DigestDone(all) ==
  \E c \in {HexSlot, Base64Slot}, fill \in DashFills(RandomBytesLen, all) :
    /\ Suspended(c)
    /\ LET resumed == Resumed(calls[c], fill)
           drawn == IF resumed.random_bytes # calls[c].random_bytes
                    THEN [draws EXCEPT !.random = @ + 1] ELSE draws
           d == [Page EXCEPT !.calls[c] = resumed, !.draws = drawn, !.now = @ + 1]
       IN Becomes(IF /\ d.calls[HexSlot].pc = "resolved"
                     /\ d.calls[Base64Slot].pc = "resolved"
                  THEN afterGeneration(finally(displaySeed(d)), invocation.caller)
                  ELSE d)

\* the timeout of line 283 fires while the race is pending: the generation
\* ends in its catch block; its two derivations go on, nothing awaits them
GenerationTimeout ==
  /\ invocation.pc = "L296"
  /\ dashHist.timeouts < MaxTimeouts
  /\ LET abandoned(c) == IF Suspended(c)
                         THEN <<[by |-> invocation.id, api |-> calls[c].api]>>
                         ELSE <<>>
         d == [Page EXCEPT !.orphans = @ \o abandoned(HexSlot) \o abandoned(Base64Slot),
                           !.calls = [c \in Callers |-> IdleCall],
                           !.hist.timeouts = @ + 1]
     IN Becomes(afterGeneration(finally(addLog(d, "error", "Generation failed")),
                                invocation.caller))

MaxClears == 1

ClickClearLog ==
  /\ dashHist.clears < MaxClears
  /\ Becomes(clearLog([Page EXCEPT !.hist.clears = @ + 1]))

ClickClearHistory ==
  /\ dashHist.clears < MaxClears
  /\ Becomes(clearHistory([Page EXCEPT !.hist.clears = @ + 1]))

\* a derivation that nothing awaits runs to its end
OrphanSettles ==
  \E k \in 1..Len(orphans) :
    Becomes([Page EXCEPT !.orphans = SubSeq(@, 1, k - 1) \o SubSeq(@, k + 1, Len(@))])

(* Specifications of the dashboard.  The page is loaded over a collecting   *)
(* instance that is ready (one tick, 167 keydown events) or that reports    *)
(* enough weighted events with an empty timer pool (no tick).               *)
DashBursts == {<<1, 167>>, <<0, 167>>}
DashboardLoaded == cryptoSubtle = TRUE /\ NoDashboard
InitDash ==
  \E b \in DashBursts :
    After(TRUE, TRUE, b[1], b[2], FewIterations) /\ DashboardLoaded

(* SpecExclusive: generations by click and the generation timeout;        *)
(* crypto.getRandomValues writes the same bytes each time.                   *)
NextExclusive ==
  \/ ClickGenerate(FALSE)
  \/ DigestDone(FALSE)
  \/ GenerationTimeout
  \/ OrphanSettles
SpecExclusive == InitDash /\ [][NextExclusive]_vars

(* SpecStress: clicks on the stress-test button and the loops they start.    *)
NextStress ==
  \/ ClickStressTest
  \/ StressTimer(FALSE)
  \/ DigestDone(FALSE)
SpecStress == InitDash /\ [][NextStress]_vars

(* SpecSeedPair: generations by click, the salts free.                       *)
NextSeedPair == ClickGenerate(TRUE) \/ DigestDone(FALSE)
SpecSeedPair == InitDash /\ [][NextSeedPair]_vars

(* SpecArrays: the page after PastRuns generations by click, each of which   *)
(* left two log entries, one history entry and one duration.                 *)
PastRuns == {49}
PastSeed(i) == DigestBytes(digest("SHA-512", Bytes(<<i>>)))
PastLog(j) ==
  [time |-> DateNow(0), type |-> IF j % 2 = 1 THEN "info" ELSE "success",
   message |-> IF j % 2 = 1 THEN "Generating seed..." ELSE "Seed generated"]
PastEntry(i) ==
  [timestamp |-> DateNow(0), hex |-> toHex(PastSeed(i)), base64 |-> toBase64(PastSeed(i)),
   duration |-> toFixed2(i), config |-> [iterations |-> FewIterations, saltSize |-> SaltSize,
                               minEvents |-> 500]]
DashboardAfter(p) ==
  /\ cryptoSubtle = TRUE
  /\ isGenerating = FALSE
  /\ isStressTestRunning = FALSE
  /\ perfData = [i \in 1..p |-> i]
  /\ seedHistory = [i \in 1..p |-> PastEntry(i)]
  /\ eventLog = [j \in 1..(2 * p) |-> PastLog(j)]
  /\ display = [seedHex |-> toHex(PastSeed(p)), seedBase64 |-> toBase64(PastSeed(p))]
  /\ invocation = [pc |-> "none"]
  /\ loops = [l \in LoopIds |-> [pc |-> "none", i |-> 0]]
  /\ orphans = <<>>
  /\ dashHist = [logged |-> [j \in 1..(2 * p) |-> PastLog(j)],
                 seeds |-> [i \in 1..p |-> PastEntry(i)],
                 perf |-> [i \in 1..p |-> i],
                 invocations |-> 0, started |-> 0, timeouts |-> 0,
                 clicks |-> 0, clears |-> 0]
InitArrays ==
  \E p \in PastRuns :
    After(TRUE, TRUE, 1, 167, FewIterations) /\ DashboardAfter(p)
NextArrays ==
  \/ ClickGenerate(FALSE)
  \/ DigestDone(FALSE)
  \/ ClickClearLog
  \/ ClickClearHistory
SpecArrays == InitArrays /\ [][NextArrays]_vars

(* ------------------------------------------------------------------------ *)
(* Claims                                                                   *)
(* ------------------------------------------------------------------------ *)
WeightedTotal == getStats.totalEvents

\* C2: with untampered constants, hasMinimumEntropy() is true if and only if
\* the weighted total is at least 500 and both pools are non-empty.
C2_ReadyIffThresholdAndPools ==
  IntegrityOk =>
    (getStats.hasMinimumEntropy <=>
       (WeightedTotal >= 500 /\ Len(entropyPool) > 0 /\ Len(timerDeltas) > 0))

\* C2 witness: the weighted total is exactly 500, both pools hold values and
\* hasMinimumEntropy() is true, after an event that moved the total there.
C2_Witness ==
  /\ WeightedTotal = 500
  /\ nEvents > 0
  /\ Len(entropyPool) > 0
  /\ Len(timerDeltas) > 0
  /\ getStats.hasMinimumEntropy

\* C6 as stated: the weighted total is 3 x key events + 2 x (mouse-down,
\* touch-start and device-motion events) + 1 x (mouse-move, touch-move and
\* scroll events), counting every event delivered since the last clear.
C6_Original ==
  WeightedTotal =
    3 * delivered.keydown
    + 2 * (delivered.mousedown + delivered.touchstart + delivered.devicemotion)
    + 1 * (delivered.mousemove + delivered.touchmove + delivered.scroll)

\* C6 amended: as stated, but a device-motion event counts only when it
\* carries accelerationIncludingGravity; one without it adds nothing.
C6_WeightedTotalOfCountedEvents ==
  WeightedTotal =
    3 * delivered.keydown
    + 2 * (delivered.mousedown + delivered.touchstart
           + (delivered.devicemotion - delivered.motionNull))
    + 1 * (delivered.mousemove + delivered.touchmove + delivered.scroll)

\* C6 witness: key events, a counted and an uncounted device-motion event
\* have been delivered since the last clear.
C6_Witness ==
  /\ delivered.keydown > 0
  /\ delivered.motionNull > 0
  /\ delivered.devicemotion > delivered.motionNull

\* C7: the behavioral pool never holds more than 5000 values and the timer
\* pool never more than 1000; each pool is the newest contiguous tail of the
\* values recorded since the last clearEntropy(); and every _addEntropy call
\* (every timer push) that overflows leaves exactly the newest 2500 (500).
C7_PoolsCappedNewestTail ==
  /\ Len(entropyPool) <= 5000
  /\ Len(timerDeltas) <= 1000
  /\ entropyPool = SliceLast(recordedB, Len(entropyPool))
  /\ timerDeltas = SliceLast(recordedT, Len(timerDeltas))
  /\ \A i \in DOMAIN trims.pool :
       trims.pool[i].overflowed => trims.pool[i].left = 2500 /\ trims.pool[i].newest
  /\ \A i \in DOMAIN trims.timer :
       trims.timer[i].overflowed => trims.timer[i].left = 500 /\ trims.timer[i].newest

\* C7 witness: the last event handler overflowed the behavioral pool, the last
\* timer tick overflowed the timer pool, and values have been dropped from both.
C7_Witness ==
  /\ \E i \in DOMAIN trims.pool : trims.pool[i].overflowed
  /\ \E i \in DOMAIN trims.timer : trims.timer[i].overflowed
  /\ Len(recordedB) > Len(entropyPool)
  /\ Len(recordedT) > Len(timerDeltas)

\* the three timer triggers are pending once each, under the handles the
\* instance holds, exactly while collecting, and so are the listeners
TriggersMatchCollecting ==
  /\ Cardinality(rafPending) = (IF isCollecting THEN 1 ELSE 0)
  /\ Cardinality(intervals) = (IF isCollecting THEN 1 ELSE 0)
  /\ Cardinality(timeouts) = (IF isCollecting THEN 1 ELSE 0)
  /\ isCollecting => rafPending = {rafId} /\ intervals = {timerId1} /\ timeouts = {timerId2}
  /\ listeners = (IF isCollecting THEN Registered(DeviceMotionEvent) ELSE {})

\* C8 as stated: one pending instance of each timer trigger and the listeners
\* registered exactly while collecting, and no pool or counter changes from
\* one state in which the instance is not collecting to the next.
C8_Original ==
  /\ []TriggersMatchCollecting
  /\ [][(~isCollecting /\ ~isCollecting') => UNCHANGED poolVars]_vars

\* C8 amended: as stated, except that clearEntropy() still empties the pools
\* and zeroes the counters while the instance is not collecting; nothing else
\* changes them until startCollecting() is called again.
C8_StoppedMeansNoCollection ==
  /\ []TriggersMatchCollecting
  /\ [][(~isCollecting /\ ~isCollecting') =>
          \/ UNCHANGED poolVars
          \/ /\ lastCall'.op = "clearEntropy"
             /\ entropyPool' = <<>> /\ timerDeltas' = <<>> /\ eventCount' = ZeroCount]_vars

\* C8 witness: stopCollecting() has just stopped an instance that had
\* collected events and timer values; no trigger is pending.
C8_Witness ==
  /\ lastCall = [op |-> "stopCollecting", collecting |-> TRUE]
  /\ ~isCollecting
  /\ Len(entropyPool) > 0
  /\ Len(timerDeltas) > 0
  /\ rafPending = {} /\ intervals = {} /\ timeouts = {}

\* C9: startCollecting() on a collecting instance and stopCollecting() on an
\* instance that is not collecting change neither isCollecting, the listeners,
\* the handles and pending timers, the pools nor the counters.
C9_RedundantStartStopChangeNothing ==
  [][(\/ lastCall'.op = "startCollecting" /\ isCollecting
      \/ lastCall'.op = "stopCollecting" /\ ~isCollecting)
     => UNCHANGED <<collVars, poolVars, clockVars>>]_vars

\* C9 witness: startCollecting() was just called on an instance that was
\* already collecting and had collected events and timer values.
C9_Witness ==
  /\ lastCall = [op |-> "startCollecting", collecting |-> TRUE]
  /\ Len(entropyPool) > 0
  /\ Len(timerDeltas) > 0

\* iterations rounds of digest(algorithm, .) on data
RECURSIVE IteratedDigest(_, _, _)
IteratedDigest(data, algorithm, n) ==
  IF n <= 0 THEN data
  ELSE IF n = 1 THEN digest(algorithm, data)
  ELSE LET half == IteratedDigest(data, algorithm, n \div 2)
       IN IF half.k = "digest"
          THEN IteratedDigest(half, algorithm, n - (n \div 2))
          ELSE data

\* the seed the dual-path derivation yields from a snapshot of both pools,
\* a salt and the Path-B random bytes
SeedOf(pool, timers, salt, random_bytes, n) ==
  LET combined == Concat(<<digest("SHA-256", _serializeFloats(pool)),
                           digest("SHA-256", _serializeFloats(timers)), salt>>)
      preHash == digest("SHA-256", combined)
      user_final == _xorArrays(IteratedDigest(preHash, "SHA-256", n),
                               _truncate512(IteratedDigest(preHash, "SHA-512", n)))
      csprng_final == _xorArrays(digest("SHA-256", random_bytes),
                                 _truncate512(digest("SHA-512", random_bytes)))
  IN digest("SHA-512", digest("SHA-512", Concat(<<user_final, csprng_final, salt>>)))

Started(c) == calls[c].pc \notin {"idle", "rejected"}

\* C1: the seed a generateSeed call returns is the derivation of the two
\* pools as they were when the call started (both are serialized before the
\* first suspension point), of the call's salt and of its Path-B random
\* bytes, whatever event handlers or clearEntropy() did to the pools at the
\* call's later suspension points.
C1_SeedDependsOnStartSnapshot ==
  \A c \in Callers :
    calls[c].pc = "resolved" =>
      calls[c].finalSeed =
        SeedOf(calls[c].startPool, calls[c].startTimer, calls[c].salt,
               calls[c].random_bytes, iterations)

\* C1 witness: a call that passed validation has resolved although, since it
\* started, keydown events or clearEntropy() changed both pools.
C1_Witness ==
  /\ calls[1].pc = "resolved"
  /\ ~calls[1].skipValidation
  /\ entropyPool # calls[1].startPool
  /\ timerDeltas # calls[1].startTimer

\* C3: a generation operation called without skipValidation in a state where
\* hasMinimumEntropy() is false rejects with the insufficient-entropy error,
\* which reports the current weighted total, the required 500 and both pool
\* sizes; the call draws no salt and no random bytes and changes neither the
\* pools, the counters nor the collection state.
C3_InsufficientEntropyRejects ==
  [][\A c \in Callers :
       (/\ calls[c].pc = "idle"
        /\ calls'[c].pc # "idle"
        /\ ~calls'[c].skipValidation
        /\ ~hasMinimumEntropy(eventCount, entropyPool, timerDeltas))
       => /\ calls'[c].pc = "rejected"
          /\ calls'[c].error = [kind |-> "insufficient",
                                current |-> WeightedTotal,
                                required |-> 500,
                                pool |-> Len(entropyPool),
                                timer |-> Len(timerDeltas)]
          /\ UNCHANGED <<draws, poolVars, collVars, clockVars>>]_vars

\* C3 witness: a call was rejected for insufficient entropy with a weighted
\* total of 500 or more, the timer pool being empty.
C3_Witness ==
  /\ calls[1].pc = "rejected"
  /\ calls[1].error.kind = "insufficient"
  /\ calls[1].error.current >= 500
  /\ calls[1].error.pool > 0
  /\ calls[1].error.timer = 0
  /\ lastCall.op \in APIs

LowercaseHex == {HexDigits[i] : i \in DOMAIN HexDigits}

\* C4: a call that has resolved holds a seed of exactly 64 bytes: 128
\* lowercase hex characters for generateSeedHex, the base64 text of 64 bytes
\* for generateSeedBase64; a call that has rejected holds an error and no
\* result; a call that has done neither holds no result.
C4_ResolvesWith64BytesOrRejects ==
  \A c \in Callers :
    /\ calls[c].pc = "resolved" =>
         /\ calls[c].error = Nil
         /\ ByteLen(calls[c].finalSeed) = 64
         /\ Len(DigestBytes(calls[c].finalSeed)) = 64
         /\ calls[c].api = "generateSeed" => calls[c].result = calls[c].finalSeed
         /\ calls[c].api = "generateSeedHex" =>
              /\ Len(calls[c].result) = 128
              /\ \A i \in DOMAIN calls[c].result : calls[c].result[i] \in LowercaseHex
         /\ calls[c].api = "generateSeedBase64" => Len(calls[c].result) = 88
    /\ calls[c].pc = "rejected" =>
         /\ calls[c].error # Nil
         /\ "result" \notin DOMAIN calls[c]
    /\ Suspended(c) => calls[c].result = Nil /\ calls[c].error = Nil

\* C4 witness: a generateSeedHex call has resolved with 128 characters, one
\* of them the "0" that pads a byte below 16.
C4_Witness ==
  /\ calls[1].pc = "resolved"
  /\ calls[1].api = "generateSeedHex"
  /\ Len(calls[1].result) = 128
  /\ \E i \in 1..64 : DigestBytes(calls[1].finalSeed)[i] < 16

\* C5: every started call holds a salt of saltSize bytes and, once on Path B,
\* 64 random bytes, each drawn by that call (one draw per call, none shared);
\* and two resolved calls on the unchanged accumulator whose salts or random
\* bytes differ hold different seeds.
C5_FreshSaltAndRandomBytesPerCall ==
  /\ \A c \in Callers :
       /\ Started(c) => ByteLen(calls[c].salt) = saltSize
       /\ (Started(c) /\ calls[c].random_bytes # Nil) =>
            ByteLen(calls[c].random_bytes) = 64
  /\ draws.salt = Cardinality({c \in Callers : Started(c)})
  /\ draws.random =
       Cardinality({c \in Callers : Started(c) /\ calls[c].random_bytes # Nil})
  /\ \A c, d \in Callers :
       (/\ c # d
        /\ calls[c].pc = "resolved" /\ calls[d].pc = "resolved"
        /\ \/ calls[c].salt # calls[d].salt
           \/ calls[c].random_bytes # calls[d].random_bytes)
       => calls[c].finalSeed # calls[d].finalSeed

\* C5 witness: two calls, in flight at the same time on the same pools, have
\* resolved with equal salts and different random bytes.
C5_Witness ==
  /\ calls[1].pc = "resolved" /\ calls[2].pc = "resolved"
  /\ calls[1].startPool = calls[2].startPool
  /\ calls[1].startTimer = calls[2].startTimer
  /\ calls[1].salt = calls[2].salt
  /\ calls[1].random_bytes # calls[2].random_bytes
  /\ draws.salt = 2 /\ draws.random = 2

\* C10: stopCollecting() and clearEntropy() called while a generation call is
\* suspended leave the call as it is, and every started call eventually
\* resolves or rejects, every digest and zero-delay yield completing.
C10_DerivationRunsToCompletion ==
  /\ [][\A c \in Callers :
          (Suspended(c) /\ lastCall'.op \in {"stopCollecting", "clearEntropy"})
          => calls'[c] = calls[c]]_vars
  /\ \A c \in Callers :
       (calls[c].pc # "idle") ~> (calls[c].pc \in {"resolved", "rejected"})

\* C10 witness: stopCollecting() has just stopped the instance while a call
\* that started on non-empty pools is suspended at the yield of its first
\* full batch, the pools having been cleared since the call started.
C10_Witness ==
  /\ calls[1].pc = "L434"
  /\ lastCall = [op |-> "stopCollecting", collecting |-> TRUE]
  /\ ~isCollecting
  /\ calls[1].startPool # <<>>
  /\ entropyPool = <<>>

\* no listener is registered and no timer trigger is pending
NothingStarted ==
  /\ listeners = {}
  /\ rafPending = {} /\ intervals = {} /\ timeouts = {}

\* C11: in a build whose threshold constants disagree, the constructor,
\* hasMinimumEntropy() and every generation call, skipValidation or not,
\* raise the integrity error; no call gets past its start, no listener or
\* timer is started and no randomness is drawn.
C11_TamperedConstantsRaise ==
  ~ConstantsAgree(constants) =>
    /\ lastCall.op \in {"constructor", "hasMinimumEntropy"} =>
         lastCall.threw /\ lastCall.error = IntegrityError
    /\ \A c \in Callers :
         /\ calls[c].pc \in {"idle", "rejected"}
         /\ calls[c].pc = "rejected" => calls[c].error = IntegrityError
    /\ draws = [salt |-> 0, random |-> 0]
    /\ NothingStarted

\* C11 witness: in a build with one constant patched, generateSeed(true) was
\* rejected and hasMinimumEntropy() has just thrown, although minEvents is 500.
C11_Witness ==
  /\ ~ConstantsAgree(constants)
  /\ minEvents = 500
  /\ calls[1].pc = "rejected"
  /\ calls[1].skipValidation
  /\ calls[1].error = IntegrityError
  /\ lastCall.op = "hasMinimumEntropy"
  /\ lastCall.threw

\* a generation call has been rejected with the integrity error
IntegrityRaised ==
  \E c \in Callers : calls[c].pc = "rejected" /\ calls[c].error = IntegrityError

\* C13 as stated: once a generation call has raised the integrity error, a
\* later hasMinimumEntropy() call raises it as well.
C13_Original ==
  (IntegrityRaised /\ lastCall.op = "hasMinimumEntropy") => lastCall.threw

\* C13 amended: hasMinimumEntropy() raises the integrity error exactly when
\* the constants disagree or minEvents is not 500, a generation call started
\* in such a state is rejected with it, and no operation of the class ends
\* such a state: only an assignment to minEvents from outside does.
C13_FailureLastsWhileCausePersists ==
  /\ [](lastCall.op = "hasMinimumEntropy" =>
          (lastCall.threw <=> ~(ConstantsAgree(constants) /\ minEvents = 500)))
  /\ [][\A c \in Callers :
          (calls[c].pc = "idle" /\ calls'[c].pc # "idle"
           /\ ~(ConstantsAgree(constants) /\ minEvents = 500))
          => calls'[c].pc = "rejected" /\ calls'[c].error = IntegrityError]_vars
  /\ [][(~(ConstantsAgree(constants) /\ minEvents = 500)
         /\ ConstantsAgree(constants') /\ minEvents' = 500)
        => lastCall'.op = "assignMinEvents"]_vars

\* C13 witness: after a generation call was rejected with the integrity
\* error, events were recorded and the pools cleared, hasMinimumEntropy()
\* has just thrown again.
C13_Witness ==
  /\ IntegrityRaised
  /\ ConstantsAgree(constants)
  /\ minEvents # 500
  /\ nEvents > 0
  /\ entropyPool = <<>>
  /\ lastCall.op = "hasMinimumEntropy"
  /\ lastCall.threw

\* C12: whatever minEvents the options held, construction succeeded and the
\* threshold is 500: minEvents is 500, getProgress().requiredEvents is 500,
\* and hasMinimumEntropy() returns false while the weighted total is below 500.
C12_MinEventsOptionIgnored ==
  /\ minEvents = 500
  /\ getProgress.requiredEvents = 500
  /\ lastCall.op = "constructor" => ~lastCall.threw
  /\ lastCall.op = "getProgress" => lastCall.value.requiredEvents = 500
  /\ (lastCall.op = "hasMinimumEntropy" /\ WeightedTotal < 500) =>
       ~lastCall.threw /\ lastCall.value = FALSE

\* C12 witness: the constructor has just returned an instance for options
\* whose minEvents is not 500 (it warned), and the instance's minEvents is 500.
C12_Witness ==
  /\ lastCall.op = "constructor"
  /\ ~lastCall.threw
  /\ lastCall.warned
  /\ minEvents = 500

\* C14: a call keeps the salt it drew at its start; that salt is the last
\* part of the combined-entropy buffer and of the final mix; the first final
\* SHA-512 is requested only once the Path A result and the Path B result
\* both exist, over user_final, csprng_final and the salt; and the second
\* SHA-512 is over the output of the first alone.
C14_OneSaltAndSequentialFinalMix ==
  /\ [](\A c \in Callers :
          Started(c) =>
            /\ calls[c].combined # Nil =>
                 calls[c].combined =
                   Concat(<<calls[c].entropyHash, calls[c].timerHash, calls[c].salt>>)
            /\ calls[c].pc \in {"L563", "L566", "resolved"} =>
                 /\ calls[c].user_final # Nil /\ calls[c].hash256_A # Nil
                 /\ calls[c].csprng_final # Nil /\ calls[c].hash256_B # Nil
            /\ calls[c].pc \notin {"L566", "resolved"} => calls[c].intermediate = Nil
            /\ calls[c].pc \in {"L566", "resolved"} =>
                 calls[c].intermediate =
                   digest("SHA-512", Concat(<<calls[c].user_final,
                                              calls[c].csprng_final, calls[c].salt>>))
            /\ calls[c].pc # "resolved" => calls[c].finalSeed = Nil
            /\ calls[c].pc = "resolved" =>
                 calls[c].finalSeed = digest("SHA-512", calls[c].intermediate))
  /\ [][\A c \in Callers :
          Started(c) => (calls'[c].pc # "idle" /\ calls'[c].salt = calls[c].salt)]_vars
  /\ [](draws.salt = Cardinality({c \in Callers : Started(c)}))

\* C14 witness: two calls drew different salts; one has resolved, the other
\* is waiting for its first final SHA-512.
C14_Witness ==
  /\ calls[1].pc = "resolved"
  /\ calls[2].pc = "L563"
  /\ calls[1].salt # calls[2].salt
  /\ draws.salt = 2

\* _iterativeHash of v1.2.1: the loop without batching
_iterativeHash_v121(data, algorithm, n) == IteratedDigest(data, algorithm, n)

\* C15: _iterativeHash yields exactly after the rounds whose number is a
\* multiple of 100; after round i it holds the i-fold hash of its input; and
\* what it returns, to Path A as hash256_A and as the SHA-512 half of
\* user_final, is what the unbatched loop of v1.2.1 returns, whatever ran at
\* its suspension points.
C15_BatchedHashEqualsUnbatched ==
  /\ [][\A c \in Callers :
          (calls[c].pc = "L429" /\ calls'[c] # calls[c]) =>
            (calls'[c].pc = "L434" <=> (calls[c].i + 1) % 100 = 0)]_vars
  /\ [](\A c \in Callers :
          /\ calls[c].pc = "L429" =>
               calls[c].hash =
                 IteratedDigest(calls[c].preHash, calls[c].algorithm, calls[c].i)
          /\ calls[c].pc = "L434" =>
               /\ (calls[c].i + 1) % 100 = 0
               /\ calls[c].hash =
                    IteratedDigest(calls[c].preHash, calls[c].algorithm, calls[c].i + 1)
          /\ (Started(c) /\ calls[c].hash256_A # Nil) =>
               calls[c].hash256_A =
                 _iterativeHash_v121(calls[c].preHash, "SHA-256", iterations)
          /\ (Started(c) /\ calls[c].user_final # Nil) =>
               calls[c].user_final =
                 _xorArrays(calls[c].hash256_A,
                            _truncate512(_iterativeHash_v121(calls[c].preHash,
                                                             "SHA-512", iterations))))

\* C15 witness: the call is suspended at its yield after round 200 of the
\* SHA-512 hash, the pools having changed since it started.
C15_Witness ==
  /\ calls[1].pc = "L434"
  /\ calls[1].algorithm = "SHA-512"
  /\ calls[1].i + 1 = 2 * batchSize
  /\ entropyPool # calls[1].startPool

\* C16: getProgress() returns currentEvents = the weighted total,
\* requiredEvents = 500, ready = (currentEvents >= 500) and percentage =
\* min(100, currentEvents / 500 x 100), which lies between 0 and 100 and is
\* 100 exactly when ready; after 500 key events and nothing else it returns
\* {currentEvents: 1500, requiredEvents: 500, percentage: 100, ready: true}.
C16_ProgressReport ==
  LET p == getProgress
      total == eventCount.mouse + eventCount.keyboard + eventCount.touch
               + eventCount.scroll + eventCount.other
  IN /\ p.currentEvents = total
     /\ p.requiredEvents = 500
     /\ p.ready = (total >= 500)
     /\ total >= 500 => p.percentage = [num |-> 100, den |-> 1]
     /\ total < 500 => p.percentage.num * 500 = total * 100 * p.percentage.den
     /\ p.percentage.den > 0
     /\ 0 <= p.percentage.num /\ p.percentage.num <= 100 * p.percentage.den
     /\ (p.percentage.num = 100 * p.percentage.den) <=> p.ready
     /\ lastCall.op = "getProgress" => ~lastCall.threw /\ lastCall.value = p
     /\ (delivered = [ZeroDelivered EXCEPT !.keydown = 500]) =>
          p = [currentEvents |-> 1500, requiredEvents |-> 500,
               percentage |-> [num |-> 100, den |-> 1], ready |-> TRUE]

\* C16 witness: getProgress() has just returned after exactly 500 key events,
\* the last of them delivered by the host after 499 earlier ones.
C16_Witness ==
  /\ lastCall.op = "getProgress"
  /\ delivered = [ZeroDelivered EXCEPT !.keydown = 500]
  /\ nEvents = 1
  /\ lastCall.value.currentEvents = 1500
  /\ lastCall.value.ready

\* C17: whenever getProgress().ready is true, a generateSeed() call made in
\* that same state without skipValidation does not reject with the
\* insufficient-entropy error.
C17_Original ==
  [][\A c \in Callers :
       (/\ getProgress.ready
        /\ calls[c].pc = "idle"
        /\ calls'[c].pc # "idle"
        /\ ~calls'[c].skipValidation)
       => ~(/\ calls'[c].pc = "rejected"
            /\ calls'[c].error.kind = "insufficient")]_vars

\* both pools are empty and all five category counters are zero
EmptyAccumulator ==
  /\ entropyPool = <<>>
  /\ timerDeltas = <<>>
  /\ eventCount = ZeroCount

\* C18: on an accumulator whose pools are empty and whose counters are zero,
\* generateSeed(true) starts its derivation and eventually resolves with a
\* 64-byte seed, while generateSeed(false) in the same state rejects with the
\* insufficient-entropy error (0/500 weighted events, pool 0, timer deltas 0).
C18_SkipValidationOnEmptyAccumulator ==
  /\ [][\A c \in Callers :
          (EmptyAccumulator /\ calls[c].pc = "idle" /\ calls'[c].pc # "idle")
          => IF calls'[c].skipValidation
             THEN /\ calls'[c].pc = "L396"
                  /\ calls'[c].startPool = <<>>
                  /\ calls'[c].startTimer = <<>>
             ELSE /\ calls'[c].pc = "rejected"
                  /\ calls'[c].error = [kind |-> "insufficient", current |-> 0,
                                        required |-> 500, pool |-> 0, timer |-> 0]]_vars
  /\ \A c \in Callers :
       (/\ Started(c)
        /\ calls[c].skipValidation
        /\ calls[c].startPool = <<>>
        /\ calls[c].startTimer = <<>>)
       ~> (/\ calls[c].pc = "resolved"
           /\ calls[c].error = Nil
           /\ ByteLen(calls[c].finalSeed) = 64)

\* C18 witness: generateSeed(true), called after clearEntropy() had emptied
\* the accumulator, has resolved with a 64-byte seed.
C18_Witness ==
  /\ calls[1].pc = "resolved"
  /\ calls[1].api = "generateSeed"
  /\ calls[1].skipValidation
  /\ calls[1].startPool = <<>>
  /\ calls[1].startTimer = <<>>
  /\ EmptyAccumulator
  /\ ByteLen(calls[1].result) = 64

\* C19: clearEntropy() empties both pools and sets all five category counters
\* to zero; a second call directly after the first changes nothing; and it
\* does not stop collection: isCollecting, the registered listeners and the
\* pending timers are the same after the call as before.
C19_ClearEntropyResetsAndKeepsCollecting ==
  [][lastCall'.op = "clearEntropy" =>
       /\ entropyPool' = <<>>
       /\ timerDeltas' = <<>>
       /\ eventCount' = ZeroCount
       /\ UNCHANGED <<isCollecting, listeners, rafPending, intervals, timeouts,
                      timerId1, timerId2, rafId>>
       /\ UNCHANGED <<dashVars, cfgVars, lastTimestamp, calls>>
       /\ lastCall.op = "clearEntropy" =>
            UNCHANGED <<dashVars, cfgVars, poolVars, collVars, clockVars, genVars>>]_vars

\* C19 witness: clearEntropy() has just run on a collecting instance that had
\* recorded an event and a timer tick; the listeners and timers are still there.
C19_Witness ==
  /\ lastCall = [op |-> "clearEntropy", collecting |-> TRUE]
  /\ nEvents >= 1 /\ nTicks >= 1
  /\ EmptyAccumulator
  /\ isCollecting
  /\ listeners # {}
  /\ intervals # {} /\ timeouts # {} /\ rafPending # {}

\* the operations of the public interface that only read the accumulator
ReadOnlyOps ==
  {"startCollecting", "stopCollecting", "hasMinimumEntropy", "getProgress",
   "getStats"} \cup APIs

\* C20: pools and counters are changed only by event handlers, timer ticks
\* and clearEntropy(): a step made by startCollecting, stopCollecting,
\* hasMinimumEntropy, getProgress, getStats or by a generation call
\* (combineEntropy included, whether the call goes on, resolves or rejects)
\* leaves both pools and all five counters exactly as they were, so stopping
\* and restarting collection keeps everything collected so far.
C20_OnlyHandlersTicksAndClearChangePools ==
  [][(lastCall'.op \in ReadOnlyOps \/ calls' # calls) =>
       UNCHANGED <<entropyPool, timerDeltas, eventCount>>]_vars

\* C20 witness: startCollecting() has just restarted a stopped instance whose
\* pool holds the values of a key event recorded before the stop.
C20_Witness ==
  /\ lastCall = [op |-> "startCollecting", collecting |-> FALSE]
  /\ isCollecting
  /\ nEvents >= 1
  /\ entropyPool # <<>>
  /\ eventCount.keyboard >= 1

\* C21: every category counter, and hence the weighted total, never decreases
\* in a step, collecting or not, except in a step that sets all five counters
\* to zero, and such a step also empties both pools.
C21_CountersMonotoneUntilReset ==
  [][\/ /\ \A k \in DOMAIN eventCount : eventCount'[k] >= eventCount[k]
        /\ _getWeightedEventCount(eventCount') >= _getWeightedEventCount(eventCount)
     \/ /\ eventCount' = ZeroCount
        /\ entropyPool' = <<>>
        /\ timerDeltas' = <<>>]_vars

\* C21 witness: a collecting instance counted a key event, was cleared after a
\* timer tick, and has counted a key event again.
C21_Witness ==
  /\ isCollecting
  /\ nEvents = 2 /\ nTicks >= 1
  /\ delivered = [ZeroDelivered EXCEPT !.keydown = 1]
  /\ eventCount = [ZeroCount EXCEPT !.keyboard = 3]
  /\ timerDeltas = <<>>

\* C22 as stated: immediately after construction isCollecting is false and no
\* listener or timer is registered.
C22_Original ==
  (lastCall.op = "constructor" /\ ~lastCall.threw) =>
    ~isCollecting /\ NothingStarted

\* C22 as amended: immediately after construction with autoCollect: false the
\* instance is inert (isCollecting false, no listener, no timer) and stays so
\* until startCollecting() is called; with any other autoCollect value, the
\* default included, the constructor itself calls startCollecting(), so the
\* instance is collecting with its listeners and timers registered.
C22_InertOnlyWithAutoCollectOff ==
  /\ [](lastCall.op = "constructor" =>
          IF "autoCollect" \in DOMAIN lastCall.options
             /\ lastCall.options.autoCollect = FALSE
          THEN ~autoCollect /\ ~isCollecting /\ NothingStarted
          ELSE /\ autoCollect /\ isCollecting
               /\ listeners = Registered(DeviceMotionEvent)
               /\ rafPending # {} /\ intervals # {} /\ timeouts # {})
  /\ [][(~isCollecting /\ NothingStarted) =>
          \/ lastCall'.op = "startCollecting"
          \/ ~isCollecting' /\ NothingStarted']_vars

\* C22 witness: startCollecting() has just started, for the first time, an
\* instance constructed with autoCollect: false.
C22_Witness ==
  /\ ~autoCollect
  /\ lastCall = [op |-> "startCollecting", collecting |-> FALSE]
  /\ isCollecting
  /\ listeners # {}
  /\ nEvents = 0
  /\ EmptyAccumulator

(* ------------------------------------------------------------------------ *)
(* cgRNDV, the baseline generator.  Its instance has the fields of the same *)
(* names as an ntrpRNG instance; it registers nothing with the host.        *)
(* ------------------------------------------------------------------------ *)
cgRNDV_SeedLen == 64

\* the methods class cgRNDV defines
cgRNDV_methods ==
  {"startCollecting", "stopCollecting", "generateSalt", "combineEntropy",
   "hasMinimumEntropy", "generateSeed", "toHex", "toBase64", "generateSeedHex",
   "generateSeedBase64", "getStats", "clearEntropy"}

\* the methods class ntrpRNG defines that are not prefixed with an underscore
ntrpRNG_methods ==
  {"startCollecting", "stopCollecting", "generateSalt", "combineEntropy",
   "hasMinimumEntropy", "generateSeed", "toHex", "toBase64", "generateSeedHex",
   "generateSeedBase64", "getProgress", "getStats", "clearEntropy"}

\* new cgRNDV(options)
cgRNDV_constructor(options) ==
  LET ac == AutoCollectOption(options)
  IN /\ constants = BuiltIn
     /\ iterations = OptionOr(options, "iterations", DefaultIterations)
     /\ saltSize = OptionOr(options, "saltSize", DefaultSaltSize)
     /\ autoCollect = ac
     /\ minEvents = OptionOr(options, "minEvents", 0)
     /\ DeviceMotionEvent = TRUE
     /\ entropyPool = <<>>
     /\ timerDeltas = <<>>
     /\ eventCount = ZeroCount
     /\ lastTimestamp = 0
     /\ now = 0
     /\ isCollecting = ac
     /\ NothingStarted
     /\ rafId = 0 /\ timerId1 = 0 /\ timerId2 = 0
     /\ calls = [c \in Callers |-> IdleCall]
     /\ recordedB = <<>>
     /\ recordedT = <<>>
     /\ delivered = ZeroDelivered
     /\ draws = [salt |-> 0, random |-> 0]
     /\ nEvents = 0
     /\ nTicks = 0
     /\ trims = NoTrims
     /\ lastCall = [op |-> "constructor", collecting |-> FALSE,
                    threw |-> FALSE, options |-> options]

cgRNDV_startCollecting ==
  /\ isCollecting' = TRUE
  /\ lastCall' = Called("startCollecting")
  /\ UNCHANGED <<dashVars, cfgVars, poolVars, clockVars, histVars, genVars, timerId1,
                 timerId2, rafId, listeners, rafPending, intervals, timeouts>>

cgRNDV_stopCollecting ==
  /\ isCollecting' = FALSE
  /\ lastCall' = Called("stopCollecting")
  /\ UNCHANGED <<dashVars, cfgVars, poolVars, clockVars, histVars, genVars, timerId1,
                 timerId2, rafId, listeners, rafPending, intervals, timeouts>>

cgRNDV_clearEntropy ==
  /\ entropyPool' = <<>>
  /\ timerDeltas' = <<>>
  /\ eventCount' = ZeroCount
  /\ lastCall' = Called("clearEntropy")
  /\ UNCHANGED <<dashVars, cfgVars, collVars, clockVars, histVars, genVars>>

\* hasMinimumEntropy()
cgRNDV_hasMinimumEntropy_asBehavioral ==
  hasMinimumEntropy(eventCount, entropyPool, timerDeltas)

cgRNDV_hasMinimumEntropy == TRUE

\* getStats()
cgRNDV_getStats ==
  [entropyPoolSize |-> 0,
   timerDeltasSize |-> 0,
   isCollecting |-> isCollecting,
   eventCount |-> eventCount,
   totalEvents |-> 0,
   minEvents |-> minEvents,
   hasMinimumEntropy |-> TRUE]

\* the error of calling a method the object does not have
NotAFunction(op) == [kind |-> "TypeError", method |-> op]

\* the host calls one of the synchronous queries of the ntrpRNG interface
cgRNDV_Call(op) ==
  /\ lastCall' =
       IF op \notin cgRNDV_methods THEN Threw(op, NotAFunction(op))
       ELSE IF op = "hasMinimumEntropy" THEN Returned(op, cgRNDV_hasMinimumEntropy)
       ELSE Returned(op, cgRNDV_getStats)
  /\ UNCHANGED <<dashVars, cfgVars, poolVars, collVars, clockVars, histVars, genVars>>

\* generateSeed(skipValidation), called through api: 64 bytes from
\* crypto.getRandomValues; generateSeedHex and generateSeedBase64 await it
cgRNDV_generateSeed(c, api, skip) ==
  /\ calls[c].pc = "idle"
  /\ lastCall' = Called(api)
  /\ \E seed \in RandomFills(cgRNDV_SeedLen) :
       calls' = [calls EXCEPT ![c] =
                   [pc |-> IF api = "generateSeed" THEN "resolved" ELSE "awaitSeed",
                    api |-> api, skipValidation |-> skip, seed |-> seed,
                    result |-> IF api = "generateSeed" THEN seed ELSE Nil,
                    error |-> Nil]]
  /\ draws' = [draws EXCEPT !.random = @ + 1]
  /\ UNCHANGED <<dashVars, cfgVars, poolVars, collVars, clockVars, histVars>>

\* generateSeedHex / generateSeedBase64 past their await
cgRNDV_Resume(c) ==
  /\ calls[c].pc = "awaitSeed"
  /\ lastCall' = NoCall
  /\ LET call == calls[c]
     IN calls' = [calls EXCEPT ![c] =
                    [call EXCEPT !.pc = "resolved",
                                 !.result = IF call.api = "generateSeedHex"
                                            THEN toHex(call.seed)
                                            ELSE toBase64(call.seed)]]
  /\ UNCHANGED <<dashVars, cfgVars, poolVars, collVars, clockVars, histVars, draws>>

cgRNDV_CallHasMinimumEntropy == cgRNDV_Call("hasMinimumEntropy")
cgRNDV_CallGetStats == cgRNDV_Call("getStats")
cgRNDV_CallGetProgress == cgRNDV_Call("getProgress")
cgRNDV_GenerateAny ==
  \E c \in Callers, api \in APIs, skip \in BOOLEAN : cgRNDV_generateSeed(c, api, skip)
cgRNDV_ResumeAny == \E c \in Callers : cgRNDV_Resume(c)

(* SpecBase: a cgRNDV instance and every call its class answers, plus the   *)
(* getProgress() call that users of the ntrpRNG interface make.             *)
InitBase ==
  \E options \in OptionSets :
    cgRNDV_constructor(options) /\ PageWithoutDashboard
NextBase ==
  \/ cgRNDV_startCollecting \/ cgRNDV_stopCollecting \/ cgRNDV_clearEntropy
  \/ cgRNDV_CallHasMinimumEntropy \/ cgRNDV_CallGetStats \/ cgRNDV_CallGetProgress
  \/ cgRNDV_GenerateAny \/ cgRNDV_ResumeAny
SpecBase == InitBase /\ [][NextBase]_vars

\* C23: for the baseline generator, after any sequence of startCollecting,
\* stopCollecting, clearEntropy and generateSeed calls with either
\* skipValidation value, hasMinimumEntropy() returns true, getStats() reports
\* totalEvents 0, both pool sizes 0 and hasMinimumEntropy true, and every
\* generateSeed() call resolves with 64 bytes drawn for it from
\* crypto.getRandomValues.
C23_BaselineAlwaysReady ==
  /\ cgRNDV_hasMinimumEntropy = TRUE
  /\ cgRNDV_getStats.totalEvents = 0
  /\ cgRNDV_getStats.entropyPoolSize = 0
  /\ cgRNDV_getStats.timerDeltasSize = 0
  /\ cgRNDV_getStats.hasMinimumEntropy = cgRNDV_hasMinimumEntropy
  /\ lastCall.op = "hasMinimumEntropy" => ~lastCall.threw /\ lastCall.value = TRUE
  /\ lastCall.op = "getStats" =>
       /\ ~lastCall.threw
       /\ lastCall.value.totalEvents = 0
       /\ lastCall.value.entropyPoolSize = 0
       /\ lastCall.value.timerDeltasSize = 0
       /\ lastCall.value.hasMinimumEntropy = TRUE
       /\ lastCall.value.eventCount = ZeroCount
  /\ \A c \in Callers :
       calls[c].pc # "idle" =>
         /\ calls[c].error = Nil
         /\ Len(calls[c].seed) = 64
         /\ calls[c].seed \in RandomFills(64)
         /\ calls[c].api = "generateSeed" =>
              calls[c].pc = "resolved" /\ calls[c].result = calls[c].seed
  /\ draws.random = Cardinality({c \in Callers : calls[c].pc # "idle"})
  /\ draws.salt = 0

\* C23 witness: after stopCollecting() and two generateSeed() calls, one with
\* skipValidation and one without, both resolved, hasMinimumEntropy() has
\* just returned true.
C23_Witness ==
  /\ lastCall = [op |-> "hasMinimumEntropy", collecting |-> FALSE,
                 threw |-> FALSE, value |-> TRUE]
  /\ autoCollect
  /\ calls[1].pc = "resolved" /\ calls[1].api = "generateSeed"
  /\ calls[2].pc = "resolved" /\ calls[2].api = "generateSeed"
  /\ calls[1].skipValidation /\ ~calls[2].skipValidation
  /\ draws.random = 2

\* C24: the baseline generator offers every public operation of the
\* behavioral generator, getProgress() included, and its progress is always
\* ready = true with percentage 100.
C24_Original ==
  lastCall.op = "getProgress" =>
    /\ ntrpRNG_methods \subseteq cgRNDV_methods
    /\ ~lastCall.threw
    /\ lastCall.value.ready = TRUE
    /\ lastCall.value.percentage = 100

(* SpecSerial: generation calls on small pools of every length from 0 to a    *)
(* few values: events and timer ticks of several kinds, then one call.       *)
SerialBursts == {<<0, 0>>, <<1, 1>>, <<2, 3>>}
InitSerial ==
  \E b \in SerialBursts :
    After(TRUE, TRUE, b[1], b[2], FewIterations) /\ PageWithoutDashboard
NextSerial ==
  \/ GenerateSeed(1) \/ Resume(1)
  \/ KeyDown \/ MouseMove \/ IntervalTick
SpecSerial == InitSerial /\ [][NextSerial]_vars

\* the number whose big-endian IEEE-754 binary64 encoding is the 8 bytes b,
\* for encodings of non-negative integers below 2^28; -1 for any other bytes
ReadFloat64BE(b) ==
  IF b = <<0, 0, 0, 0, 0, 0, 0, 0>> THEN 0
  ELSE LET e == (b[1] * 16 + b[2] \div 16) - 1023
           f == (b[2] % 16) * Pow2(24) + b[3] * Pow2(16) + b[4] * Pow2(8) + b[5]
       IN IF /\ b[1] < 128 /\ 0 <= e /\ e <= 28
             /\ b[6] = 0 /\ b[7] = 0 /\ b[8] = 0
             /\ f % Pow2(28 - e) = 0
          THEN Pow2(e) + f \div Pow2(28 - e)
          ELSE 0 - 1

\* bytes is the serialization of floatArray: 8 bytes per value, value i at
\* byte offset 8 * i in big-endian order
SerializationOf(bytes, floatArray) ==
  /\ bytes.k = "bytes"
  /\ Len(bytes.b) = 8 * Len(floatArray)
  /\ \A i \in 1..Len(floatArray) :
       ReadFloat64BE(SubSeq(bytes.b, 8 * (i - 1) + 1, 8 * i)) = floatArray[i]

\* C25: _serializeFloats returns exactly 8 x N bytes for an input of N values
\* (zero bytes for N = 0), places value i at byte offset 8 * i in big-endian
\* order, returns the same bytes whenever it is given the same input, and
\* does not modify the input pool.
C25_SerializeFloatsBigEndian ==
  /\ _serializeFloats(<<>>) = Bytes(<<>>)
  /\ _serializeFloats(<<1, 2, 255, 256>>) =
       Bytes(<<63, 240, 0, 0, 0, 0, 0, 0, 64, 0, 0, 0, 0, 0, 0, 0,
               64, 111, 224, 0, 0, 0, 0, 0, 64, 112, 0, 0, 0, 0, 0, 0>>)
  /\ \A c \in Callers :
       Started(c) =>
         /\ SerializationOf(calls[c].entropyBytes, calls[c].startPool)
         /\ SerializationOf(calls[c].timerBytes, calls[c].startTimer)
         /\ (calls[c].pc = "L396" /\ lastCall.op \in APIs) =>
              /\ entropyPool = calls[c].startPool
              /\ timerDeltas = calls[c].startTimer
              /\ calls[c].entropyBytes = _serializeFloats(entropyPool)
              /\ calls[c].timerBytes = _serializeFloats(timerDeltas)

\* C25 witness: a call has serialized a behavioral pool holding the values of
\* three key events and one mouse move (18 values, 144 bytes) and a timer pool
\* of two ticks (4 values, 32 bytes).
C25_Witness ==
  /\ Started(1)
  /\ Len(calls[1].startPool) = 18
  /\ ByteLen(calls[1].entropyBytes) = 144
  /\ Len(calls[1].startTimer) = 4
  /\ ByteLen(calls[1].timerBytes) = 32

(* SpecRounds: instances constructed with an iterations option of -1, 1 or 3, *)
(* and generation calls on them.                                             *)
IterationOptions == {0 - 1, 1, 3}
InitRounds ==
  \E it \in IterationOptions :
    constructor([iterations |-> it, saltSize |-> SaltSize], BuiltIn, TRUE) /\ PageWithoutDashboard
NextRounds == GenerateSeed(1) \/ Resume(1) \/ KeyDown \/ IntervalTick \/ clearEntropy
SpecRounds == InitRounds /\ [][NextRounds]_vars

RECURSIVE RoundsFrom(_, _)
\* the number of digest rounds that lead from data to hash
RoundsFrom(data, hash) ==
  IF hash = data \/ hash.k # "digest" THEN 0 ELSE 1 + RoundsFrom(data, hash.in)

\* C26: the number of hash rounds each of the two Path A chains has run in a
\* derivation that is past Path A is a positive integer: the configured
\* iterations value (5000 when none is configured).
C26_Original ==
  \A c \in Callers :
    (Started(c) /\ calls[c].user_final # Nil) =>
      LET rounds256 == RoundsFrom(calls[c].preHash, calls[c].hash256_A)
          rounds512 == RoundsFrom(calls[c].preHash, calls[c].user_final.b.of)
      IN /\ rounds256 >= 1 /\ rounds512 >= 1
         /\ rounds256 = iterations /\ rounds512 = iterations

(* SpecHost: construction and use on hosts with and without crypto.subtle.   *)
InitHost ==
  \E options \in OptionSets, s \in BOOLEAN :
    constructor(options, BuiltIn, TRUE) /\ cryptoSubtle = s /\ NoDashboard
NextHost ==
  \/ GenerateSeed(1) \/ Resume(1)
  \/ startCollecting \/ stopCollecting \/ KeyDown \/ IntervalTick
SpecHost == InitHost /\ [][NextHost]_vars

\* C27 as stated: if the hashing primitive is unavailable in the host,
\* construction does not succeed and no entropy collection begins.
C27_Original ==
  ~cryptoSubtle =>
    /\ lastCall.op = "constructor" => lastCall.threw
    /\ ~isCollecting
    /\ NothingStarted
    /\ EmptyAccumulator

\* C27 as amended: if crypto.subtle is unavailable in the host, construction
\* still succeeds and collection begins as configured; the failure comes at
\* the first use: every generation call that passes or skips validation draws
\* its salt and then rejects with a TypeError at its first digest, so no call
\* is ever suspended or resolved and no seed is produced.
C27_FailsAtFirstDigest ==
  /\ [](~cryptoSubtle =>
          /\ lastCall.op = "constructor" =>
               ~lastCall.threw /\ isCollecting = autoCollect
          /\ \A c \in Callers : calls[c].pc \in {"idle", "rejected"})
  /\ [][\A c \in Callers :
          (~cryptoSubtle /\ calls[c].pc = "idle" /\ calls'[c].pc # "idle") =>
            /\ calls'[c].pc = "rejected"
            /\ IF ValidationFails(calls'[c].skipValidation)
               THEN calls'[c].error.kind = "insufficient" /\ draws' = draws
               ELSE /\ calls'[c].error = SubtleUndefined
                    /\ draws' = [draws EXCEPT !.salt = @ + 1]
            /\ UNCHANGED <<poolVars, collVars>>]_vars

\* C27 witness: on a host without crypto.subtle the instance is collecting and
\* has recorded a key event and a timer tick, and a generateSeed(true) call
\* has been rejected with the TypeError.
C27_Witness ==
  /\ ~cryptoSubtle
  /\ isCollecting
  /\ nEvents >= 1 /\ nTicks >= 1
  /\ entropyPool # <<>> /\ timerDeltas # <<>>
  /\ calls[1].pc = "rejected"
  /\ calls[1].error = SubtleUndefined
  /\ draws.salt = 1

\* C28: each firing of any of the three timer triggers while collecting
\* appends exactly two values to the timer pool, the delta since the previous
\* tick and a wall-clock reading (the pool then being cut to its newest 500
\* values if it holds more than 1000), and changes neither the behavioral
\* pool nor any counter, so getProgress() returns what it returned before.
C28_TickAppendsTwoTimerValuesOnly ==
  [][(nTicks' # nTicks /\ isCollecting) =>
       LET pushed == timerDeltas \o <<now' - lastTimestamp, DateNow(now')>>
           n == Len(timerDeltas')
       IN /\ Len(pushed) = Len(timerDeltas) + 2
          /\ timerDeltas' = IF Len(pushed) > 1000
                            THEN SubSeq(pushed, Len(pushed) - 499, Len(pushed))
                            ELSE pushed
          /\ n >= 2
          /\ timerDeltas'[n - 1] = now' - lastTimestamp
          /\ timerDeltas'[n] = DateNow(now')
          /\ lastTimestamp' = now'
          /\ entropyPool' = entropyPool
          /\ eventCount' = eventCount
          /\ getProgress' = getProgress]_vars

\* C28 witness: two timer triggers have fired on a collecting instance that
\* has counted no event since it was cleared: the timer pool holds four
\* values, the behavioral pool none, and progress is at zero.
C28_Witness ==
  /\ isCollecting
  /\ nTicks = 2
  /\ Len(timerDeltas) = 4
  /\ entropyPool = <<>>
  /\ getProgress.currentEvents = 0
  /\ ~getProgress.ready

(* C29: generateSeed(false) checks readiness and reads both pools in one    *)
(* synchronous run: a call that passes validation starts in a state whose   *)
(* weighted total is at least 500 and whose pools are non-empty, serializes *)
(* those very pools before its first await, and the two pre-hashes it later *)
(* computes are taken over them, whatever events or clearEntropy() calls    *)
(* happen while it is in flight.                                            *)
C29_ValidatedCallHashesPoolsItChecked ==
  [][\A c \in Callers :
       LET call == calls[c]
           started == calls'[c]
       IN /\ (call.pc = "idle" /\ started.pc = "L396" /\ ~started.skipValidation) =>
               /\ _getWeightedEventCount(eventCount) >= 500
               /\ entropyPool # <<>>
               /\ timerDeltas # <<>>
               /\ started.startPool = entropyPool
               /\ started.startTimer = timerDeltas
               /\ started.entropyBytes = _serializeFloats(entropyPool)
               /\ started.timerBytes = _serializeFloats(timerDeltas)
          /\ (call.pc = "L396" /\ started.pc = "L399" /\ ~call.skipValidation) =>
               /\ call.startPool # <<>>
               /\ started.entropyHash =
                    digest("SHA-256", _serializeFloats(call.startPool))
          /\ (call.pc = "L399" /\ started.pc = "L530" /\ ~call.skipValidation) =>
               /\ call.startTimer # <<>>
               /\ started.timerHash =
                    digest("SHA-256", _serializeFloats(call.startTimer))]_vars

C29_Witness ==
  /\ calls[1].pc = "L530"
  /\ ~calls[1].skipValidation
  /\ calls[1].entropyHash = digest("SHA-256", _serializeFloats(calls[1].startPool))
  /\ Len(calls[1].startPool) >= 167
  /\ entropyPool = <<>>
  /\ timerDeltas = <<>>

(* C30: readiness is stable.  From a state in which hasMinimumEntropy()     *)
(* returns true, every step other than a clearEntropy() call (an event, a   *)
(* timer tick, a trim of either pool, stopCollecting, startCollecting, any  *)
(* step of generateSeed) leads to a state in which it returns true.         *)
C30_ReadyUntilClearEntropy ==
  [][(/\ IntegrityOk
      /\ hasMinimumEntropy(eventCount, entropyPool, timerDeltas)
      /\ lastCall'.op # "clearEntropy")
       => /\ IntegrityOk'
          /\ hasMinimumEntropy(eventCount', entropyPool', timerDeltas')]_vars

C30_Witness ==
  /\ hasMinimumEntropy(eventCount, entropyPool, timerDeltas)
  /\ trims.timer # <<>> /\ trims.timer[1].overflowed
  /\ Len(timerDeltas) = TimerKeep
  /\ ~isCollecting
  /\ Suspended(1)

\* the events delivered since the last clearEntropy() that a handler counted
CountedSinceClear ==
  delivered.mousemove + delivered.mousedown + delivered.keydown
    + delivered.touchstart + delivered.touchmove + delivered.scroll
    + delivered.devicemotion

\* C31 as stated: while collection is active, hasMinimumEntropy() is true at
\* the latest once 500 counted events have been delivered since the last
\* clearEntropy().
C31_Original ==
  (isCollecting /\ CountedSinceClear >= 500) =>
    (IntegrityOk /\ hasMinimumEntropy(eventCount, entropyPool, timerDeltas))

(* C31, amended: while collection stays active and clearEntropy() is not    *)
(* called, with counted events and timer ticks delivered, hasMinimumEntropy *)
(* eventually returns true; and it returns true in every state in which 500 *)
(* counted events have been delivered since the last clearEntropy() and     *)
(* both pools hold a value.                                                 *)
C31_EventuallyReadyOncePoolsFilled ==
  /\ ([](isCollecting /\ lastCall.op # "clearEntropy")
        => <>(IntegrityOk /\ hasMinimumEntropy(eventCount, entropyPool, timerDeltas)))
  /\ []((CountedSinceClear >= 500 /\ entropyPool # <<>> /\ timerDeltas # <<>>)
          => (IntegrityOk /\ hasMinimumEntropy(eventCount, entropyPool, timerDeltas)))

C31_Witness ==
  /\ isCollecting
  /\ CountedSinceClear = 168
  /\ delivered.mousemove = 2
  /\ nTicks = 1 /\ Len(timerDeltas) = 2
  /\ _getWeightedEventCount(eventCount) = 500
  /\ hasMinimumEntropy(eventCount, entropyPool, timerDeltas)

(* ------------------------------------------------------------------------ *)
(* Dashboard claims                                                         *)
(* ------------------------------------------------------------------------ *)
\* the dashboard generations that have a derivation in flight on the rng
InFlightBy ==
  {invocation.id : c \in {s \in {HexSlot, Base64Slot} : Suspended(s)}}
    \cup {orphans[k].by : k \in 1..Len(orphans)}

\* an invocation of the dashboard's generateSeed made while isGenerating is
\* set draws no salt and starts no derivation
BusyInvocationStartsNothing ==
  [][(isGenerating /\ dashHist'.invocations > dashHist.invocations)
       => (draws' = draws /\ dashHist'.started = dashHist.started)]_vars

\* C32: dashboard generation is mutually exclusive: at any time all the
\* derivations in flight on the rng were started by one single invocation of
\* the dashboard's generateSeed (and an invocation made while isGenerating is
\* set starts no derivation, which is BusyInvocationStartsNothing).
C32_Original == Cardinality(InFlightBy) <= 1

\* the bytes a string of hex digit pairs stands for
DigitValue(ch) == CHOOSE v \in 0..15 : HexDigits[v + 1] = ch
FromHex(str) ==
  [i \in 1..(Len(str) \div 2) |-> 16 * DigitValue(str[2 * i - 1]) + DigitValue(str[2 * i])]

\* hex and base64 are the two encodings of one 64-byte seed
SameSeed(hex, base64) ==
  /\ Len(hex) = 2 * RandomBytesLen
  /\ hex = toHex(FromHex(hex))
  /\ base64 = toBase64(FromHex(hex))

\* C33: the hex string and the Base64 string that the dashboard displays
\* after a generation, and stores together in one history entry, are two
\* encodings of the same 64-byte seed.
C33_Original ==
  /\ display.seedHex # <<>> => SameSeed(display.seedHex, display.seedBase64)
  /\ \A i \in 1..Len(seedHistory) : SameSeed(seedHistory[i].hex, seedHistory[i].base64)

\* loop l of stressTest() has not reached its end
LoopRunning(l) == loops[l].pc \in {"L696", "L706"}

\* a click has asked a stress test to stop and its loop has not ended yet
CancelRequested == ~isStressTestRunning /\ \E l \in LoopIds : LoopRunning(l)

\* C34: a running stress test can be cancelled by clicking the stress-test
\* button again: the click never interrupts a derivation that is in flight,
\* and after the click the stress test starts no further generation.
C34_Original ==
  [][/\ dashHist'.clicks > dashHist.clicks => calls' = calls
     /\ CancelRequested => dashHist'.started = dashHist.started]_vars

\* C35: at most one stress-test loop is running at any time, whatever
\* sequence of clicks on the stress-test button occurs, including a cancel
\* followed at once by a restart.
C35_Original == Cardinality({l \in LoopIds : LoopRunning(l)}) <= 1

\* C36: after any sequence of dashboard operations seedHistory holds at most
\* 50 entries, eventLog at most 100 and perfData at most 50, and each of them
\* keeps the most recently added entries (of those added since it was last
\* emptied).
C36_ArraysKeepTheMostRecent ==
  /\ Len(seedHistory) <= 50
  /\ Len(eventLog) <= 100
  /\ Len(perfData) <= 50
  /\ seedHistory = SliceLast(dashHist.seeds, MAX_HISTORY_ENTRIES)
  /\ eventLog = SliceLast(dashHist.logged, MAX_LOG_ENTRIES)
  /\ perfData = SliceLast(dashHist.perf, MAX_PERF_DATA_POINTS)

\* two generations on top of 49: each array was pushed beyond its limit
C36_Witness ==
  /\ Len(dashHist.seeds) = MAX_HISTORY_ENTRIES + 1
  /\ Len(seedHistory) = MAX_HISTORY_ENTRIES
  /\ Len(dashHist.logged) > MAX_LOG_ENTRIES
  /\ Len(eventLog) = MAX_LOG_ENTRIES
  /\ Len(dashHist.perf) = MAX_PERF_DATA_POINTS + 1
  /\ Len(perfData) = MAX_PERF_DATA_POINTS
  /\ ~isGenerating

====
